---- MODULE Spec2Model ----
(***************************************************************************)
(* Agent Hive: the reservation server (src/src/coordinator.py), the        *)
(* dependency engine of the Cortex (src/src/cortex.py), the dispatcher     *)
(* (src/src/agent_dispatcher.py) and the YOLO loop (src/src/yolo_loop.py). *)
(*                                                                         *)
(* Spec        the coordinator: its store, its HTTP handlers, the sweep    *)
(*             task and the clock.  Every handler is an `async def` with   *)
(*             no await in its body, served by one event loop, so a        *)
(*             handler runs to completion before the next one starts: K    *)
(*             concurrent requests are K handler steps in some order.      *)
(* SpecCortex  the project records (AGENCY.md front matter) as they are    *)
(*             edited, with the graph queries computed on every record     *)
(*             set.                                                        *)
(* SpecGraph   the same records with only dependency references among the *)
(*             known projects declared, for the graph and its cycles.      *)
(* SpecSelect  select_work applied to candidate lists of every priority   *)
(*             and timestamp shape.                                        *)
(* SpecDispatch one run_cycle of the dispatcher, pass by pass, while other *)
(*             agents claim, release and complete projects.                *)
(* SpecLoop    one YoloLoop: run() pass by pass, stop(), Ctrl+C and the    *)
(*             clock, with run() called again after it returned.           *)
(* SpecWeave   one LoomWeaver.weave: the main thread, the threads of the   *)
(*             pool and their loops, while other agents edit the records.  *)
(* SpecRunner  run_project and the yolo_project tool on the same records.  *)
(* SpecLoopId  YoloLoop objects constructed as the clock passes seconds.   *)
(* SpecLease   weave beside a coordinator that holds another's lease.      *)
(* SpecSweep   Spec with the sweep task scheduled fairly.                  *)
(* SpecClaimRace claim_project called side by side, read and write apart.  *)
(* SpecRun     one call of run() with its passes scheduled fairly.         *)
(***************************************************************************)
EXTENDS Integers, Sequences, FiniteSets, TLC

VARIABLES
    REQUIRE_AUTH,   \* coordinator.py:37, fixed when the process starts
    HIVE_API_KEY,   \* coordinator.py:36, "" when unset or empty
    now,            \* datetime.now(timezone.utc), in seconds
    store,          \* the global ReservationStore: claims and claims_by_id
    next_uuid,      \* uuid.uuid4(): a claim_id never handed out before
    response,       \* the response of the request served by the last step
    granted,        \* history: per project, the agents granted a lease since its lease was last removed
    grant,          \* history: per project, the last grant while neither released nor extended
    projects,       \* the discovered project records, in discovery order
    dry_run,        \* AgentDispatcher.dry_run
    cycle,          \* the locals of AgentDispatcher.run_cycle and its position
    dispatch_calls, \* history: the projects handed to dispatch in the current cycle, in order
    selection,      \* what select_work returned last: <<>> for None, else <<project>>
    config,         \* YoloLoop.config: the LoopConfig
    state,          \* YoloLoop.state: the LoopState
    stop_requested, \* YoloLoop._stop_requested
    clock,          \* time.time() as the loop reads it
    frame,          \* the position of YoloLoop.run: its for loop and the iteration it is about to run
    executor_calls, \* history: the executor calls of the current run(), in order
    weaver,         \* LoomWeaver: active_loops, and the locals of weave and its position
    workers,        \* per loop created for a project: the thread running it, its loop and its history
    loops,          \* the YoloLoop objects constructed, in order: loop_id, prompt and time of construction
    claim_calls     \* per concurrent call of claim_project: its position, the file as it read it, what it returned

dispatcher_vars == <<dry_run, cycle, dispatch_calls, selection>>

loop_vars == <<config, state, stop_requested, clock, frame, executor_calls>>

weaver_vars == <<weaver, workers, loops, claim_calls>>

vars == <<REQUIRE_AUTH, HIVE_API_KEY, now, store, next_uuid, response, granted, grant, projects,
          dispatcher_vars, loop_vars, weaver_vars>>

(***************************************************************************)
(* Bounds and inputs                                                       *)
(***************************************************************************)
MaxTicks == 2       \* the clock advances at most this many times
MaxUuid == 2        \* at most this many leases are granted
TickSeconds == 60   \* seconds the clock advances at a time; the shortest lease ends on a tick

MAX_TTL_SECONDS == 86400
MIN_TTL_SECONDS == 60

ProjectIds == {"p1"}
AgentNames == {"a1", "a2"}
NoKey == ""
NoCred == ""
Keys == {NoKey, "k1"}
Credentials == {NoCred, "k1", "k2"}
ClaimTTLs == {59, 60, 86400, 86401}
ExtendTTLs == {-30, 60, 86401}

Min(a, b) == IF a < b THEN a ELSE b

(***************************************************************************)
(* verify_api_key: 200 stands for "return True", otherwise the status of   *)
(* the HTTPException raised.                                               *)
(***************************************************************************)
\* slip: the presented credential is never compared with the key
verify_api_key_uncompared(credentials) ==
    IF (~REQUIRE_AUTH) /\ HIVE_API_KEY = NoKey THEN 200
    ELSE IF HIVE_API_KEY = NoKey THEN 500
    ELSE IF credentials = NoCred THEN 401
    ELSE 200

\* slip: a missing key lets every request through (fail open)
verify_api_key_fail_open(credentials) ==
    IF HIVE_API_KEY = NoKey THEN 200
    ELSE IF credentials = NoCred THEN 401
    ELSE IF credentials # HIVE_API_KEY THEN 401
    ELSE 200

verify_api_key(credentials) ==
    IF (~REQUIRE_AUTH) /\ HIVE_API_KEY = NoKey THEN 200
    ELSE IF HIVE_API_KEY = NoKey THEN 500
    ELSE IF credentials = NoCred THEN 401
    ELSE IF credentials # HIVE_API_KEY THEN 401
    ELSE 200

(***************************************************************************)
(* Claim and ReservationStore                                              *)
(***************************************************************************)
\* slip: the age of the lease is compared instead of its expiry
is_expired_by_creation(claim, t) == t > claim.created_at

is_expired(claim, t) == t > claim.expires_at

EmptyStore == [claims |-> <<>>, claims_by_id |-> <<>>]

Without(f, k) == [x \in (DOMAIN f) \ {k} |-> f[x]]

\* slip: the claim_id of the removed lease stays in claims_by_id
_remove_claim_index_kept(s, project_id) ==
    IF project_id \in DOMAIN s.claims
    THEN [claims |-> Without(s.claims, project_id), claims_by_id |-> s.claims_by_id]
    ELSE s

_remove_claim(s, project_id) ==
    IF project_id \in DOMAIN s.claims
    THEN [claims |-> Without(s.claims, project_id),
          claims_by_id |-> Without(s.claims_by_id, s.claims[project_id].claim_id)]
    ELSE s

\* slip: a lease that has not expired is not reported
get_claim_unreported(s, project_id, t) ==
    IF project_id \in DOMAIN s.claims /\ is_expired(s.claims[project_id], t)
    THEN [store |-> _remove_claim(s, project_id), found |-> FALSE]
    ELSE [store |-> s, found |-> FALSE]

\* slip: the claim is popped from the dict instead of looked up
get_claim_popped(s, project_id, t) ==
    IF project_id \in DOMAIN s.claims /\ is_expired(s.claims[project_id], t)
    THEN [store |-> _remove_claim(s, project_id), found |-> FALSE]
    ELSE [store |-> [s EXCEPT !.claims = Without(s.claims, project_id)],
          found |-> project_id \in DOMAIN s.claims]

\* get_claim returns the claim (found) and leaves the store changed when it evicts
get_claim(s, project_id, t) ==
    IF project_id \in DOMAIN s.claims /\ is_expired(s.claims[project_id], t)
    THEN [store |-> _remove_claim(s, project_id), found |-> FALSE]
    ELSE [store |-> s, found |-> project_id \in DOMAIN s.claims]

add_claim(s, claim) ==
    [claims |-> (claim.project_id :> claim) @@ s.claims,
     claims_by_id |-> (claim.claim_id :> claim.project_id) @@ s.claims_by_id]

remove_claim(s, project_id) == _remove_claim(s, project_id)

remove_claim_by_id(s, claim_id) ==
    IF claim_id \in DOMAIN s.claims_by_id /\ s.claims_by_id[claim_id] # ""
    THEN _remove_claim(s, s.claims_by_id[claim_id])
    ELSE s

Expired(s, t) == {pid \in DOMAIN s.claims : is_expired(s.claims[pid], t)}

\* slip: the swept leases stay in claims_by_id
cleanup_expired_claims_only(s, t) ==
    LET expired == Expired(s, t)
    IN [claims |-> [pid \in (DOMAIN s.claims) \ expired |-> s.claims[pid]],
        claims_by_id |-> s.claims_by_id]

cleanup_expired(s, t) ==
    LET expired == Expired(s, t)
        gone == {s.claims[pid].claim_id : pid \in expired}
    IN [claims |-> [pid \in (DOMAIN s.claims) \ expired |-> s.claims[pid]],
        claims_by_id |-> [cid \in (DOMAIN s.claims_by_id) \ gone |-> s.claims_by_id[cid]]]

get_all_active_claims(s, t) == cleanup_expired(s, t)

(***************************************************************************)
(* Responses.  One record shape for every endpoint; a field an endpoint    *)
(* does not send keeps its default.                                        *)
(***************************************************************************)
NoResponse ==
    [op |-> "none", cred |-> NoCred, force |-> FALSE, project_id |-> "", agent_name |-> "",
     ttl_seconds |-> 0, status |-> 0, success |-> FALSE, claim_id |-> 0, current_owner |-> "",
     expires_at |-> 0, count |-> 0, evicted |-> FALSE]

Request(op, cred, project_id) ==
    [NoResponse EXCEPT !.op = op, !.cred = cred, !.project_id = project_id]

Rejected(req, code) == [req EXCEPT !.status = code]

\* history: the leases of old that are no longer in new
Removed(old, new) ==
    {pid \in DOMAIN old.claims :
        pid \notin DOMAIN new.claims \/ new.claims[pid].claim_id # old.claims[pid].claim_id}

Forget(h, pids) == [pid \in ProjectIds |-> IF pid \in pids THEN <<>> ELSE h[pid]]

NoGrant == [at |-> -1, ttl |-> 0]

\* no dispatcher has been constructed, no cycle is running
NoCycle ==
    [pc |-> "idle", max_dispatches |-> 0, iteration |-> 0, ready_projects |-> <<>>,
     attempted_paths |-> {}, dispatched |-> 0]

DispatcherIdle ==
    /\ dry_run = FALSE
    /\ cycle = NoCycle
    /\ dispatch_calls = <<>>
    /\ selection = <<>>

\* no loop has been constructed
NoConfig ==
    [max_iterations |-> 0, timeout_seconds |-> 0, circuit_breaker_threshold |-> 0,
     rate_limit_per_hour |-> 0, completion_markers |-> <<>>]

\* end_time: Optional[float] = None
NoTime == -1

NoState ==
    [status |-> "pending", current_iteration |-> 0, consecutive_failures |-> 0,
     api_calls_this_hour |-> 0, hour_started |-> 0, start_time |-> 0, end_time |-> NoTime,
     last_output |-> <<>>]

NoFrame == [pc |-> "idle", iteration |-> 0, runs |-> 0, skipped |-> 0, entry_failures |-> 0]

LoopIdle ==
    /\ config = NoConfig
    /\ state = NoState
    /\ stop_requested = FALSE
    /\ clock = 0
    /\ frame = NoFrame
    /\ executor_calls = <<>>

WeaveIds == <<"A", "B", "C">>

LoopIds == {"w-A", "w-B", "w-C", "r-A", "r-B", "r-C"}

NoWeaver ==
    [pc |-> "idle", max_parallel_agents |-> 0, total_timeout_seconds |-> 0, start_time |-> 0,
     project_queue |-> <<>>, futures |-> <<>>, active_loops |-> {}, results |-> {},
     deadline |-> FALSE, unblocked |-> {}, edits |-> 0]

NoWorker ==
    [pc |-> "none", project |-> "", status |-> "pending", stop_requested |-> FALSE,
     claimed |-> FALSE, releases |-> 0, late |-> FALSE]

\* the calls of claim_project that run side by side: two of LoomWeaver, for
\* the loops L1 and L2, and one of AgentDispatcher
Callers == {"L1", "L2", "D1"}

NoCall == [pc |-> "none", path |-> "", seen |-> <<>>, result |-> FALSE]

WeaverIdle ==
    /\ weaver = NoWeaver
    /\ workers = [l \in LoopIds |-> NoWorker]
    /\ loops = <<>>
    /\ claim_calls = [c \in Callers |-> NoCall]

Init ==
    /\ REQUIRE_AUTH \in BOOLEAN
    /\ HIVE_API_KEY \in Keys
    /\ now = 0
    /\ store = EmptyStore
    /\ next_uuid = 1
    /\ response = NoResponse
    /\ granted = [pid \in ProjectIds |-> <<>>]
    /\ grant = [pid \in ProjectIds |-> NoGrant]
    /\ projects = <<>>
    /\ DispatcherIdle
    /\ LoopIdle
    /\ WeaverIdle

(***************************************************************************)
(* POST /claim.  The dependency verify_api_key runs first, then pydantic   *)
(* validates ClaimRequest (422), then the handler body.  `force` is the    *)
(* query parameter the client sends (coordinator_client.py:175); the       *)
(* handler declares no such parameter.                                     *)
(***************************************************************************)
claim_project(cred, project_id, agent_name, ttl_seconds, force) ==
    LET req == [Request("claim", cred, project_id) EXCEPT !.agent_name = agent_name,
                                                       !.ttl_seconds = ttl_seconds, !.force = force]
        auth == verify_api_key(cred)
        got == get_claim(store, project_id, now)
        mid == Forget(granted, Removed(store, got.store))
        claim == [claim_id |-> next_uuid, project_id |-> project_id, agent_name |-> agent_name,
                  created_at |-> now, expires_at |-> now + ttl_seconds]
    IN  /\ UNCHANGED <<REQUIRE_AUTH, HIVE_API_KEY, now, projects, dispatcher_vars, loop_vars, weaver_vars>>
        /\ IF auth # 200
           THEN /\ response' = Rejected(req, auth)
                /\ UNCHANGED <<store, next_uuid, granted, grant>>
           ELSE IF ttl_seconds < MIN_TTL_SECONDS \/ ttl_seconds > MAX_TTL_SECONDS
           THEN /\ response' = Rejected(req, 422)
                /\ UNCHANGED <<store, next_uuid, granted, grant>>
           ELSE IF got.found
           THEN /\ response' = [req EXCEPT !.status = 409,
                                           !.current_owner = store.claims[project_id].agent_name,
                                           !.expires_at = store.claims[project_id].expires_at]
                /\ store' = got.store
                /\ granted' = mid
                /\ UNCHANGED <<next_uuid, grant>>
           ELSE /\ next_uuid <= MaxUuid
                /\ response' = [req EXCEPT !.status = 200, !.success = TRUE,
                                           !.claim_id = claim.claim_id,
                                           !.expires_at = claim.expires_at,
                                           !.evicted = (got.store # store)]
                /\ store' = add_claim(got.store, claim)
                /\ next_uuid' = next_uuid + 1
                /\ granted' = [mid EXCEPT ![project_id] = Append(@, agent_name)]
                /\ grant' = [grant EXCEPT ![project_id] = [at |-> now, ttl |-> ttl_seconds]]

\* DELETE /release/{project_id}
release_project(cred, project_id) ==
    LET req == Request("release", cred, project_id)
        auth == verify_api_key(cred)
        after == remove_claim(store, project_id)
    IN  /\ UNCHANGED <<REQUIRE_AUTH, HIVE_API_KEY, now, next_uuid, projects, dispatcher_vars, loop_vars, weaver_vars>>
        /\ IF auth # 200
           THEN /\ response' = Rejected(req, auth)
                /\ UNCHANGED <<store, granted, grant>>
           ELSE /\ response' = [req EXCEPT !.status = 200,
                                           !.success = (project_id \in DOMAIN store.claims)]
                /\ store' = after
                /\ granted' = Forget(granted, Removed(store, after))
                /\ grant' = [grant EXCEPT ![project_id] = NoGrant]

\* DELETE /release/claim/{claim_id}
release_by_claim_id(cred, claim_id) ==
    LET req == [Request("release_by_claim_id", cred, "") EXCEPT !.claim_id = claim_id]
        auth == verify_api_key(cred)
        after == remove_claim_by_id(store, claim_id)
        gone == Removed(store, after)
    IN  /\ UNCHANGED <<REQUIRE_AUTH, HIVE_API_KEY, now, next_uuid, projects, dispatcher_vars, loop_vars, weaver_vars>>
        /\ IF auth # 200
           THEN /\ response' = Rejected(req, auth)
                /\ UNCHANGED <<store, granted, grant>>
           ELSE /\ response' = [req EXCEPT !.status = 200,
                                           !.success = (after # store),
                                           !.project_id = IF after # store
                                                          THEN store.claims_by_id[claim_id] ELSE ""]
                /\ store' = after
                /\ granted' = Forget(granted, gone)
                /\ grant' = [pid \in ProjectIds |-> IF pid \in gone THEN NoGrant ELSE grant[pid]]

\* POST /extend/{project_id}?ttl_seconds=
extend_claim(cred, project_id, ttl_seconds) ==
    LET req == [Request("extend", cred, project_id) EXCEPT !.ttl_seconds = ttl_seconds]
        auth == verify_api_key(cred)
        got == get_claim(store, project_id, now)
        new_expires == now + Min(ttl_seconds, MAX_TTL_SECONDS)
    IN  /\ UNCHANGED <<REQUIRE_AUTH, HIVE_API_KEY, now, next_uuid, projects, dispatcher_vars, loop_vars, weaver_vars>>
        /\ IF auth # 200
           THEN /\ response' = Rejected(req, auth)
                /\ UNCHANGED <<store, granted, grant>>
           ELSE IF ~got.found
           THEN /\ response' = [Rejected(req, 404) EXCEPT !.evicted = (got.store # store)]
                /\ store' = got.store
                /\ granted' = Forget(granted, Removed(store, got.store))
                /\ UNCHANGED grant
           ELSE /\ response' = [req EXCEPT !.status = 200, !.success = TRUE,
                                           !.expires_at = new_expires]
                /\ store' = [store EXCEPT !.claims[project_id].expires_at = new_expires]
                /\ grant' = [grant EXCEPT ![project_id] = NoGrant]
                /\ UNCHANGED granted

\* GET /status/{project_id}: no dependency on verify_api_key
get_status(cred, project_id) ==
    LET req == Request("status", cred, project_id)
        got == get_claim(store, project_id, now)
    IN  /\ UNCHANGED <<REQUIRE_AUTH, HIVE_API_KEY, now, next_uuid, grant, projects, dispatcher_vars, loop_vars, weaver_vars>>
        /\ response' = [req EXCEPT !.status = 200, !.success = got.found,
                                   !.evicted = (got.store # store),
                                   !.current_owner = IF got.found
                                                     THEN store.claims[project_id].agent_name ELSE "",
                                   !.expires_at = IF got.found
                                                  THEN store.claims[project_id].expires_at ELSE 0]
        /\ store' = got.store
        /\ granted' = Forget(granted, Removed(store, got.store))

\* GET /reservations
get_reservations(cred) ==
    LET req == Request("reservations", cred, "")
        after == get_all_active_claims(store, now)
    IN  /\ UNCHANGED <<REQUIRE_AUTH, HIVE_API_KEY, now, next_uuid, grant, projects, dispatcher_vars, loop_vars, weaver_vars>>
        /\ response' = [req EXCEPT !.status = 200, !.count = Cardinality(DOMAIN after.claims),
                                   !.evicted = (after # store)]
        /\ store' = after
        /\ granted' = Forget(granted, Removed(store, after))

\* GET /health
health_check(cred) ==
    LET req == Request("health", cred, "")
        after == get_all_active_claims(store, now)
    IN  /\ UNCHANGED <<REQUIRE_AUTH, HIVE_API_KEY, now, next_uuid, grant, projects, dispatcher_vars, loop_vars, weaver_vars>>
        /\ response' = [req EXCEPT !.status = 200, !.count = Cardinality(DOMAIN after.claims),
                                   !.evicted = (after # store)]
        /\ store' = after
        /\ granted' = Forget(granted, Removed(store, after))

\* one round of cleanup_task, at whatever moment its sleep ends
cleanup_task ==
    LET after == cleanup_expired(store, now)
    IN  /\ after # store
        /\ store' = after
        /\ granted' = Forget(granted, Removed(store, after))
        /\ response' = NoResponse
        /\ UNCHANGED <<REQUIRE_AUTH, HIVE_API_KEY, now, next_uuid, grant, projects, dispatcher_vars, loop_vars, weaver_vars>>

\* the clock
Tick ==
    /\ now < MaxTicks * TickSeconds
    /\ now' = now + TickSeconds
    /\ response' = NoResponse
    /\ UNCHANGED <<REQUIRE_AUTH, HIVE_API_KEY, store, next_uuid, granted, grant, projects, dispatcher_vars, loop_vars, weaver_vars>>

Next ==
    \/ \E cred \in Credentials, pid \in ProjectIds, agent \in AgentNames,
          ttl \in ClaimTTLs, force \in BOOLEAN :
            claim_project(cred, pid, agent, ttl, force)
    \/ \E cred \in Credentials, pid \in ProjectIds : release_project(cred, pid)
    \/ \E cred \in Credentials, cid \in 1..MaxUuid : release_by_claim_id(cred, cid)
    \/ \E cred \in Credentials, pid \in ProjectIds, ttl \in ExtendTTLs :
            extend_claim(cred, pid, ttl)
    \/ \E cred \in Credentials, pid \in ProjectIds : get_status(cred, pid)
    \/ \E cred \in Credentials : get_reservations(cred)
    \/ \E cred \in Credentials : health_check(cred)
    \/ cleanup_task
    \/ Tick

Spec == Init /\ [][Next]_vars

(***************************************************************************)
(* Properties of the coordinator                                           *)
(***************************************************************************)
Mutating == {"claim", "release", "release_by_claim_id", "extend"}
ReadOnly == {"health", "status", "reservations"}

\* the step serves a claim for pid that passes authentication and validation
ServesClaim(pid) ==
    /\ response'.op = "claim"
    /\ response'.project_id = pid
    /\ verify_api_key(response'.cred) = 200
    /\ response'.ttl_seconds >= MIN_TTL_SECONDS
    /\ response'.ttl_seconds <= MAX_TTL_SECONDS

\* pid has a lease that has not expired
LiveLease(pid) == pid \in DOMAIN store.claims /\ now <= store.claims[pid].expires_at

\* C1: of the claims served for one project while its lease is not removed,
\* exactly one is granted, and every other one is answered 409 with the
\* granted agent as current_owner.
C1_ExactlyOneGranted ==
    \A pid \in ProjectIds :
        /\ Len(granted[pid]) <= 1
        /\ (response.op = "claim" /\ response.project_id = pid /\ response.status \in {200, 409})
            => /\ Len(granted[pid]) = 1
               /\ response.status = 200 => response.agent_name = granted[pid][1]
               /\ response.status = 409 => response.current_owner = granted[pid][1]

C1_Witness ==
    /\ response.op = "claim"
    /\ response.status = 409
    /\ response.agent_name # response.current_owner

\* C2: while a lease granted at t0 with TTL T is neither released nor
\* extended, a claim served at t with t0 <= t < t0+T is answered 409 and a
\* claim served at t > t0+T is granted, swept or not.
C2_LeaseWindow ==
    [][\A pid \in ProjectIds :
        (ServesClaim(pid) /\ grant[pid] # NoGrant)
        => /\ (grant[pid].at <= now /\ now < grant[pid].at + grant[pid].ttl)
                => response'.status = 409
           /\ now > grant[pid].at + grant[pid].ttl => response'.status = 200]_vars

\* a claim granted by evicting, on read, an expired lease the sweep had not removed
C2_Witness ==
    /\ response.op = "claim"
    /\ response.status = 200
    /\ response.evicted
    /\ now > 0

\* C3: a claim without force for a project with a live lease is answered 409
\* and leaves the lease and the claim_id index as they were.
C3_ConflictKeepsLease ==
    [][\A pid \in ProjectIds :
        (ServesClaim(pid) /\ ~response'.force /\ LiveLease(pid))
        => /\ response'.status = 409
           /\ response'.current_owner = store.claims[pid].agent_name
           /\ store' = store]_vars

\* the holder itself claims again
C3_Witness ==
    /\ response.op = "claim"
    /\ ~response.force
    /\ response.status = 409
    /\ response.agent_name = response.current_owner
    /\ response.project_id \in DOMAIN store.claims

\* C4: a claim with force=true for a project with a live lease of another
\* agent is granted, and afterwards the store holds exactly one lease for the
\* project, owned by the new agent.
C4_ForceOverrides ==
    [][\A pid \in ProjectIds :
        (/\ ServesClaim(pid)
         /\ response'.force
         /\ LiveLease(pid)
         /\ store.claims[pid].agent_name # response'.agent_name)
        => /\ response'.status = 200
           /\ pid \in DOMAIN store'.claims
           /\ store'.claims[pid].agent_name = response'.agent_name
           /\ {cid \in DOMAIN store'.claims_by_id : store'.claims_by_id[cid] = pid}
                = {store'.claims[pid].claim_id}]_vars

\* C5: with authentication on and a secret configured, a mutating request
\* without the secret is answered 401 and changes nothing in the store; the
\* read-only endpoints answer without a credential.
C5_AuthRequired ==
    [][(REQUIRE_AUTH /\ HIVE_API_KEY # NoKey)
        => /\ (response'.op \in Mutating /\ response'.cred # HIVE_API_KEY)
                => (response'.status = 401 /\ store' = store)
           /\ (response'.op \in ReadOnly /\ response'.cred = NoCred)
                => response'.status = 200]_vars

\* a release with a wrong credential, and the lease is still there
C5_Witness ==
    /\ REQUIRE_AUTH
    /\ HIVE_API_KEY # NoKey
    /\ response.op = "release"
    /\ response.cred \notin {NoCred, HIVE_API_KEY}
    /\ response.status = 401
    /\ response.project_id \in DOMAIN store.claims

\* C6: with authentication required and no secret configured, every mutating
\* request is rejected, with or without a credential, and the store stays as
\* it was.
C6_FailClosed ==
    [][(REQUIRE_AUTH /\ HIVE_API_KEY = NoKey /\ response'.op \in Mutating)
        => (response'.status = 500 /\ store' = store)]_vars

C6_Witness ==
    /\ REQUIRE_AUTH
    /\ HIVE_API_KEY = NoKey
    /\ response.op = "claim"
    /\ response.cred # NoCred
    /\ response.status = 500
    /\ store = EmptyStore

(***************************************************************************)
(* Cortex: the dependency engine (src/src/cortex.py).                      *)
(*                                                                         *)
(* A project record is what discover_projects returns for one AGENCY.md:   *)
(* project_id and, from its metadata, status, blocked, owner and the       *)
(* lists dependencies.blocked_by and dependencies.blocks.                  *)
(***************************************************************************)
MaxEdits == 3       \* fields set away from a fresh record plus dependency references, in all
MaxRefs == 4        \* dependency references declared, in all, where only the graph is at stake

MAX_RECURSION_DEPTH == 100

CortexIds == <<"A", "B", "C">>          \* the projects, in discovery order
UnknownId == "X"                        \* an id no AGENCY.md declares
RefIds == {"A", "B", "C", UnknownId}
Statuses == {"active", "pending", "completed"}
NoOwner == "None"
Owners == {NoOwner, "a1"}

Range(seq) == {seq[i] : i \in 1..Len(seq)}

Index(seq, x) == CHOOSE i \in 1..Len(seq) : seq[i] = x /\ \A j \in 1..(i - 1) : seq[j] # x

FreshProject(id) ==
    [project_id |-> id, status |-> "active", blocked |-> FALSE, owner |-> NoOwner,
     blocked_by |-> <<>>, blocks |-> <<>>]

Weight(ps) ==
    LET w(p) == (IF p.status # "active" THEN 1 ELSE 0) + (IF p.blocked THEN 1 ELSE 0)
                + (IF p.owner # NoOwner THEN 1 ELSE 0) + Len(p.blocked_by) + Len(p.blocks)
        sum[i \in 0..Len(ps)] == IF i = 0 THEN 0 ELSE sum[i - 1] + w(ps[i])
    IN sum[Len(ps)]

ProjectIdsOf(ps) == {ps[i].project_id : i \in 1..Len(ps)}

(***************************************************************************)
(* build_dependency_graph                                                  *)
(***************************************************************************)
\* slip: the blocker is recorded in edges only
RECURSIVE add_blocked_by_one_sided(_, _, _, _)
add_blocked_by_one_sided(g, project_id, blocked_by, i) ==
    IF i > Len(blocked_by) THEN g
    ELSE LET blocker_id == blocked_by[i]
         IN add_blocked_by_one_sided(
                IF blocker_id \in DOMAIN g.nodes
                THEN [g EXCEPT !.edges[blocker_id] = Append(@, project_id)]
                ELSE g,
                project_id, blocked_by, i + 1)

\* the loop over blocked_by, from its i-th entry on
RECURSIVE add_blocked_by(_, _, _, _)
add_blocked_by(g, project_id, blocked_by, i) ==
    IF i > Len(blocked_by) THEN g
    ELSE LET blocker_id == blocked_by[i]
         IN add_blocked_by(
                IF blocker_id \in DOMAIN g.nodes
                THEN [g EXCEPT !.edges[blocker_id] = Append(@, project_id),
                               !.reverse_edges[project_id] = Append(@, blocker_id)]
                ELSE g,
                project_id, blocked_by, i + 1)

\* the loop over blocks, from its i-th entry on
RECURSIVE add_blocks(_, _, _, _)
add_blocks(g, project_id, blocks, i) ==
    IF i > Len(blocks) THEN g
    ELSE LET blocked_id == blocks[i]
         IN add_blocks(
                IF blocked_id \in DOMAIN g.nodes
                THEN [g EXCEPT !.edges[project_id] = Append(@, blocked_id),
                               !.reverse_edges[blocked_id] =
                                    IF project_id \notin Range(@) THEN Append(@, project_id) ELSE @]
                ELSE g,
                project_id, blocks, i + 1)

\* the second loop over the projects, from the k-th on
RECURSIVE build_edges(_, _, _)
build_edges(g, ps, k) ==
    IF k > Len(ps) THEN g
    ELSE build_edges(
            add_blocks(add_blocked_by(g, ps[k].project_id, ps[k].blocked_by, 1),
                       ps[k].project_id, ps[k].blocks, 1),
            ps, k + 1)

build_dependency_graph(ps) ==
    LET ids == ProjectIdsOf(ps)
        last(id) == CHOOSE i \in 1..Len(ps) :
                        ps[i].project_id = id /\ \A j \in (i + 1)..Len(ps) : ps[j].project_id # id
        nodes == [id \in ids |-> [status |-> ps[last(id)].status,
                                  owner |-> ps[last(id)].owner,
                                  blocked |-> ps[last(id)].blocked]]
    IN build_edges([nodes |-> nodes,
                    edges |-> [id \in ids |-> <<>>],
                    reverse_edges |-> [id \in ids |-> <<>>]], ps, 1)

(***************************************************************************)
(* detect_cycles.  `order` is the order in which `for node in nodes`       *)
(* yields the set of node ids.  The search state st is visited, rec_stack, *)
(* path and cycles, with found for the value dfs returns.                  *)
(***************************************************************************)
RECURSIVE dfs(_, _, _, _)
RECURSIVE dfs_neighbors(_, _, _, _, _)

dfs(edges, st, node, depth) ==
    IF depth > MAX_RECURSION_DEPTH THEN [st EXCEPT !.found = FALSE]
    ELSE dfs_neighbors(edges,
                       [st EXCEPT !.visited = @ \cup {node},
                                  !.rec_stack = @ \cup {node},
                                  !.path = Append(@, node)],
                       node, depth, 1)

\* the loop over edges[node], from its i-th entry on, and what follows the loop
dfs_neighbors(edges, st, node, depth, i) ==
    IF i > Len(edges[node])
    THEN [st EXCEPT !.path = SubSeq(@, 1, Len(@) - 1),
                    !.rec_stack = @ \ {node},
                    !.found = FALSE]
    ELSE LET neighbor == edges[node][i]
         IN IF neighbor \notin st.visited
            THEN LET r == dfs(edges, st, neighbor, depth + 1)
                 IN IF r.found THEN r ELSE dfs_neighbors(edges, r, node, depth, i + 1)
            ELSE IF neighbor \in st.rec_stack
            THEN [st EXCEPT !.cycles = Append(@, SubSeq(st.path, Index(st.path, neighbor),
                                                        Len(st.path)) \o <<neighbor>>),
                            !.found = TRUE]
            ELSE dfs_neighbors(edges, st, node, depth, i + 1)

RECURSIVE dfs_roots(_, _, _, _)
dfs_roots(edges, st, order, k) ==
    IF k > Len(order) THEN st
    ELSE dfs_roots(edges,
                   IF order[k] \notin st.visited THEN dfs(edges, st, order[k], 0) ELSE st,
                   order, k + 1)

detect_cycles(ps, order) ==
    dfs_roots(build_dependency_graph(ps).edges,
              [visited |-> {}, rec_stack |-> {}, path |-> <<>>, cycles |-> <<>>, found |-> FALSE],
              order, 1).cycles

\* every order in which a set of strings can be iterated
Orders(ids) ==
    {o \in [1..Cardinality(ids) -> ids] : \A i, j \in 1..Cardinality(ids) : i # j => o[i] # o[j]}

(***************************************************************************)
(* is_blocked.  A reason is modelled by its kind, not by its text.         *)
(***************************************************************************)
\* slip: the blockers of a blocker are not followed
RECURSIVE check_dependencies_direct(_, _, _, _)
check_dependencies_direct(g, to_check, visited, result) ==
    IF to_check = <<>> THEN result
    ELSE LET dep_id == Head(to_check)
             rest == Tail(to_check)
         IN IF dep_id \in visited THEN check_dependencies_direct(g, rest, visited, result)
            ELSE IF g.nodes[dep_id].status # "completed"
            THEN check_dependencies_direct(g, rest, visited \cup {dep_id},
                    [result EXCEPT !.is_blocked = TRUE,
                                   !.blocking_projects = Append(@, dep_id)])
            ELSE check_dependencies_direct(g, rest, visited \cup {dep_id}, result)

\* the while loop over to_check
RECURSIVE check_dependencies(_, _, _, _)
check_dependencies(g, to_check, visited, result) ==
    IF to_check = <<>> THEN result
    ELSE LET dep_id == Head(to_check)
             rest == Tail(to_check)
         IN IF dep_id \in visited THEN check_dependencies(g, rest, visited, result)
            ELSE IF dep_id \notin DOMAIN g.nodes
            THEN check_dependencies(g, rest, visited \cup {dep_id},
                    [result EXCEPT !.is_blocked = TRUE,
                                   !.reasons = Append(@, "unknown_dependency"),
                                   !.blocking_projects = Append(@, dep_id)])
            ELSE IF g.nodes[dep_id].status # "completed"
            THEN check_dependencies(g, rest \o g.reverse_edges[dep_id], visited \cup {dep_id},
                    [result EXCEPT !.is_blocked = TRUE,
                                   !.blocking_projects = Append(@, dep_id)])
            ELSE check_dependencies(g, rest, visited \cup {dep_id}, result)

\* the loop over the cycles, from the k-th on
RECURSIVE check_cycles(_, _, _, _)
check_cycles(cycles, project_id, result, k) ==
    IF k > Len(cycles) THEN result
    ELSE IF project_id \in Range(cycles[k])
    THEN [result EXCEPT !.is_blocked = TRUE, !.in_cycle = TRUE, !.cycle = cycles[k],
                        !.reasons = Append(@, "cycle")]
    ELSE check_cycles(cycles, project_id, result, k + 1)

is_blocked(project_id, ps, order) ==
    LET graph == build_dependency_graph(ps)
        result0 == [is_blocked |-> FALSE, reasons |-> <<>>, blocking_projects |-> <<>>,
                    in_cycle |-> FALSE, cycle |-> <<>>]
    IN IF project_id \notin DOMAIN graph.nodes
       THEN [result0 EXCEPT !.is_blocked = TRUE, !.reasons = <<"not_found">>]
       ELSE LET result1 == IF graph.nodes[project_id].blocked
                           THEN [result0 EXCEPT !.is_blocked = TRUE, !.reasons = <<"explicit">>]
                           ELSE result0
                result2 == check_dependencies(graph, graph.reverse_edges[project_id], {}, result1)
                result3 == IF result2.blocking_projects # <<>>
                           THEN [result2 EXCEPT !.reasons = Append(@, "uncompleted")]
                           ELSE result2
            IN check_cycles(detect_cycles(ps, order), project_id, result3, 1)

(***************************************************************************)
(* has_unresolved_blockers and ready_work                                  *)
(***************************************************************************)
\* project_statuses: for an id declared twice the later record wins
project_statuses(all_projects) ==
    [id \in ProjectIdsOf(all_projects) |->
        all_projects[CHOOSE i \in 1..Len(all_projects) :
                        /\ all_projects[i].project_id = id
                        /\ \A j \in (i + 1)..Len(all_projects) : all_projects[j].project_id # id].status]

\* slip: an unknown blocker is skipped
RECURSIVE check_blockers_skipping(_, _, _)
check_blockers_skipping(statuses, blocked_by, i) ==
    IF i > Len(blocked_by) THEN FALSE
    ELSE IF blocked_by[i] \notin DOMAIN statuses THEN check_blockers_skipping(statuses, blocked_by, i + 1)
    ELSE IF statuses[blocked_by[i]] # "completed" THEN TRUE
    ELSE check_blockers_skipping(statuses, blocked_by, i + 1)

\* the loop over blocked_by, from its i-th entry on
RECURSIVE check_blockers(_, _, _)
check_blockers(statuses, blocked_by, i) ==
    IF i > Len(blocked_by) THEN FALSE
    ELSE IF blocked_by[i] \notin DOMAIN statuses THEN TRUE
    ELSE IF statuses[blocked_by[i]] # "completed" THEN TRUE
    ELSE check_blockers(statuses, blocked_by, i + 1)

has_unresolved_blockers(project, all_projects) ==
    IF project.blocked_by = <<>> THEN FALSE
    ELSE check_blockers(project_statuses(all_projects), project.blocked_by, 1)

ready_work(ps) ==
    LET ready(project) ==
            /\ project.status = "active"
            /\ ~project.blocked
            /\ project.owner = NoOwner
            /\ ~has_unresolved_blockers(project, ps)
    IN SelectSeq(ps, ready)

(***************************************************************************)
(* The project records: AGENCY.md files are edited between two runs of the *)
(* Cortex, one field or one dependency reference at a time.                *)
(***************************************************************************)
InitCortex ==
    /\ projects = [i \in 1..Len(CortexIds) |-> FreshProject(CortexIds[i])]
    /\ REQUIRE_AUTH = TRUE
    /\ HIVE_API_KEY = NoKey
    /\ now = 0
    /\ store = EmptyStore
    /\ next_uuid = 1
    /\ response = NoResponse
    /\ granted = [pid \in ProjectIds |-> <<>>]
    /\ grant = [pid \in ProjectIds |-> NoGrant]
    /\ DispatcherIdle
    /\ LoopIdle
    /\ WeaverIdle

Edit(ps) ==
    /\ Weight(ps) <= MaxEdits
    /\ projects' = ps
    /\ UNCHANGED <<REQUIRE_AUTH, HIVE_API_KEY, now, store, next_uuid, response, granted, grant,
                   dispatcher_vars, loop_vars, weaver_vars>>

set_status(i, status) ==
    /\ status # projects[i].status
    /\ Edit([projects EXCEPT ![i].status = status])

set_blocked(i, blocked) ==
    /\ blocked # projects[i].blocked
    /\ Edit([projects EXCEPT ![i].blocked = blocked])

set_owner(i, owner) ==
    /\ owner # projects[i].owner
    /\ Edit([projects EXCEPT ![i].owner = owner])

append_blocked_by(i, id) == Edit([projects EXCEPT ![i].blocked_by = Append(@, id)])

append_blocks(i, id) == Edit([projects EXCEPT ![i].blocks = Append(@, id)])

NextCortex ==
    \/ \E i \in 1..Len(projects), status \in Statuses : set_status(i, status)
    \/ \E i \in 1..Len(projects), blocked \in BOOLEAN : set_blocked(i, blocked)
    \/ \E i \in 1..Len(projects), owner \in Owners : set_owner(i, owner)
    \/ \E i \in 1..Len(projects), id \in RefIds : append_blocked_by(i, id)
    \/ \E i \in 1..Len(projects), id \in RefIds : append_blocks(i, id)

SpecCortex == InitCortex /\ [][NextCortex]_vars

(***************************************************************************)
(* The same records with nothing but dependency references among the known *)
(* projects declared: the inputs of build_dependency_graph and             *)
(* detect_cycles.                                                          *)
(***************************************************************************)
Declare(ps) ==
    /\ Weight(ps) <= MaxRefs
    /\ projects' = ps
    /\ UNCHANGED <<REQUIRE_AUTH, HIVE_API_KEY, now, store, next_uuid, response, granted, grant,
                   dispatcher_vars, loop_vars, weaver_vars>>

declare_blocked_by(i, id) == Declare([projects EXCEPT ![i].blocked_by = Append(@, id)])

declare_blocks(i, id) == Declare([projects EXCEPT ![i].blocks = Append(@, id)])

NextGraph ==
    \/ \E i \in 1..Len(projects), id \in Range(CortexIds) : declare_blocked_by(i, id)
    \/ \E i \in 1..Len(projects), id \in Range(CortexIds) : declare_blocks(i, id)

SpecGraph == InitCortex /\ [][NextGraph]_vars

(***************************************************************************)
(* Properties of the Cortex                                                *)
(***************************************************************************)
Known(id) == id \in ProjectIdsOf(projects)

Record(id) == projects[CHOOSE i \in 1..Len(projects) : projects[i].project_id = id]

\* the indices of the records that meet the four conditions of readiness
Eligible ==
    {i \in 1..Len(projects) :
        /\ projects[i].status = "active"
        /\ projects[i].blocked = FALSE
        /\ projects[i].owner = NoOwner
        /\ \A id \in Range(projects[i].blocked_by) : Known(id) /\ Record(id).status = "completed"}

\* C7: ready_work returns exactly the projects that are active, not blocked,
\* unowned and whose blocked_by ids all resolve to a completed project.
C7_ReadyExactly ==
    LET ready == ready_work(projects)
    IN /\ Range(ready) = {projects[i] : i \in Eligible}
       /\ Len(ready) = Cardinality(Eligible)

\* one project is ready through a completed blocker while another, active,
\* unowned and not flagged, is held back by a blocker that is not completed
\* or by an id that matches no project
C7_Witness ==
    \E i, j \in 1..Len(projects) :
        /\ i \in Eligible /\ projects[i].blocked_by # <<>>
        /\ projects[i] \in Range(ready_work(projects))
        /\ j \notin Eligible /\ projects[j].status = "active"
        /\ ~projects[j].blocked /\ projects[j].owner = NoOwner
        /\ \E id \in Range(projects[j].blocked_by) : ~Known(id) \/ Record(id).status # "completed"
        /\ projects[j] \notin Range(ready_work(projects))

\* C8: when A is in B's blocked_by, A is in reverse_edges[B] and B is in edges[A].
C8_GraphSymmetric ==
    LET graph == build_dependency_graph(projects)
    IN \A a, b \in ProjectIdsOf(projects) :
        a \in Range(Record(b).blocked_by)
        => /\ a \in Range(graph.reverse_edges[b])
           /\ b \in Range(graph.edges[a])

C8_Witness ==
    \E a, b \in ProjectIdsOf(projects) :
        /\ a # b
        /\ a \in Range(Record(b).blocked_by)
        /\ b \in Range(build_dependency_graph(projects).edges[a])

\* C9: if the graph holds a cycle x -> y -> z -> x, detect_cycles reports a
\* cycle containing x, y and z, in whatever order the nodes are iterated.
C9_ThreeCycleReported ==
    LET graph == build_dependency_graph(projects)
        ids == ProjectIdsOf(projects)
    IN \A x, y, z \in ids :
        (/\ x # y /\ y # z /\ x # z
         /\ y \in Range(graph.edges[x])
         /\ z \in Range(graph.edges[y])
         /\ x \in Range(graph.edges[z]))
        => \A order \in Orders(ids) :
            \E k \in 1..Len(detect_cycles(projects, order)) :
                {x, y, z} \subseteq Range(detect_cycles(projects, order)[k])

\* the known projects reached from the ids in `from` along blocked_by
\* references; the search goes on behind the ids in `through` only
RECURSIVE Reach(_, _, _)
Reach(from, seen, through) ==
    LET new == {id \in from : Known(id)} \ seen
        next == UNION {Range(Record(id).blocked_by) : id \in new \cap through}
    IN IF new = {} THEN seen ELSE Reach(next, seen \cup new, through)

Blockers(t) == Reach(Range(Record(t).blocked_by), {}, ProjectIdsOf(projects))

LiveBlockers(t) ==
    Reach(Range(Record(t).blocked_by), {},
          {id \in ProjectIdsOf(projects) : Record(id).status # "completed"})

RECURSIVE Descendants(_, _, _)
Descendants(edges, from, seen) ==
    LET next == UNION {Range(edges[id]) : id \in from} \ seen
    IN IF next = {} THEN seen ELSE Descendants(edges, next, seen \cup next)

OnCycle(id) == id \in Descendants(build_dependency_graph(projects).edges, {id}, {})

\* C11: a project on a dependency cycle, whether its edges come from blocked_by
\* or from blocks, is never returned by ready_work, whatever owners and statuses
\* claims, releases and completions have left in the records.
C11_CyclicNeverReady ==
    \A i \in 1..Len(projects) :
        OnCycle(projects[i].project_id) => projects[i] \notin Range(ready_work(projects))

(***************************************************************************)
(* Agent dispatcher (src/src/agent_dispatcher.py).                         *)
(*                                                                         *)
(* A project record carries, besides the fields the Cortex reads, its path *)
(* (one AGENCY.md per project, so the path stands for the project) and the *)
(* metadata priority and last_updated.  A last_updated is the text as      *)
(* written: its kind, its wall-clock reading in hours and, when it names   *)
(* one, its UTC offset in hours.                                           *)
(***************************************************************************)
DEFAULT_AGENT_NAME == "claude-code"

priority_order == [critical |-> 0, high |-> 1, medium |-> 2, low |-> 3]

Priorities == {"critical", "high", "medium", "low", "urgent"}   \* "urgent" is no key of priority_order

datetime_max == 9999        \* datetime.max, later than every reading

Missing == [kind |-> "missing", wall |-> 0, utcoffset |-> 0]            \* absent, None or ""
Unparsable == [kind |-> "unparsable", wall |-> 0, utcoffset |-> 0]      \* fromisoformat raises ValueError
Naive(wall) == [kind |-> "naive", wall |-> wall, utcoffset |-> 0]
Aware(wall, utcoffset) == [kind |-> "aware", wall |-> wall, utcoffset |-> utcoffset]

LastUpdateds == {Missing, Unparsable, Naive(10), Naive(12), Aware(13, 2)}

DispatchProject(id, priority, last_updated) ==
    [path |-> id, priority |-> priority, last_updated |-> last_updated] @@ FreshProject(id)

\* slip: an aware timestamp is compared by its wall-clock reading
sort_key_wall_clock(project) ==
    <<IF project.priority \in DOMAIN priority_order THEN priority_order[project.priority] ELSE 2,
      IF project.last_updated.kind \in {"missing", "unparsable"} THEN datetime_max
      ELSE project.last_updated.wall>>

sort_key(project) ==
    LET last_updated == project.last_updated
        timestamp == IF last_updated.kind = "missing" THEN datetime_max
                     ELSE IF last_updated.kind = "unparsable" THEN datetime_max
                     ELSE IF last_updated.kind = "aware"
                     THEN last_updated.wall - last_updated.utcoffset
                     ELSE last_updated.wall
    IN <<IF project.priority \in DOMAIN priority_order THEN priority_order[project.priority] ELSE 2,
         timestamp>>

\* the order of Python tuples
TupleLess(a, b) == a[1] < b[1] \/ (a[1] = b[1] /\ a[2] < b[2])

\* sorted(projects, key=sort_key): stable, an element goes behind those of equal key
RECURSIVE insert_sorted(_, _)
insert_sorted(sorted_projects, project) ==
    IF sorted_projects = <<>> THEN <<project>>
    ELSE IF TupleLess(sort_key(project), sort_key(Head(sorted_projects)))
    THEN <<project>> \o sorted_projects
    ELSE <<Head(sorted_projects)>> \o insert_sorted(Tail(sorted_projects), project)

RECURSIVE sorted(_, _)
sorted(ps, k) ==
    IF k = 0 THEN <<>> ELSE insert_sorted(sorted(ps, k - 1), ps[k])

\* select_work returns <<>> for None and <<project>> for a project
select_work(ps) ==
    IF ps = <<>> THEN <<>> ELSE <<sorted(ps, Len(ps))[1]>>

(***************************************************************************)
(* select_work applied to every list of up to three candidates.            *)
(***************************************************************************)
InitSelect ==
    /\ \E n \in 0..Len(CortexIds) :
        \E priority \in [1..n -> Priorities], last_updated \in [1..n -> LastUpdateds] :
            projects = [i \in 1..n |-> DispatchProject(CortexIds[i], priority[i], last_updated[i])]
    /\ REQUIRE_AUTH = TRUE
    /\ HIVE_API_KEY = NoKey
    /\ now = 0
    /\ store = EmptyStore
    /\ next_uuid = 1
    /\ response = NoResponse
    /\ granted = [pid \in ProjectIds |-> <<>>]
    /\ grant = [pid \in ProjectIds |-> NoGrant]
    /\ DispatcherIdle
    /\ LoopIdle
    /\ WeaverIdle

call_select_work ==
    /\ selection' = select_work(projects)
    /\ UNCHANGED <<REQUIRE_AUTH, HIVE_API_KEY, now, store, next_uuid, response, granted, grant,
                   projects, dry_run, cycle, dispatch_calls, loop_vars, weaver_vars>>

NextSelect == call_select_work

SpecSelect == InitSelect /\ [][NextSelect]_vars

\* the rank and the instant the ordering is stated in
Rank(project) ==
    CASE project.priority = "critical" -> 0
      [] project.priority = "high" -> 1
      [] project.priority = "medium" -> 2
      [] project.priority = "low" -> 3

Valid(last_updated) == last_updated.kind \in {"naive", "aware"}

Instant(last_updated) == last_updated.wall - last_updated.utcoffset

\* p comes strictly before q: a lower rank, or the same rank and an older
\* valid timestamp, a missing or unparsable one coming after every valid one
Before(p, q) ==
    \/ Rank(p) < Rank(q)
    \/ /\ Rank(p) = Rank(q)
       /\ Valid(p.last_updated)
       /\ Valid(q.last_updated) => Instant(p.last_updated) < Instant(q.last_updated)

Ranked == \A i \in 1..Len(projects) : projects[i].priority \in {"critical", "high", "medium", "low"}

\* C15: select_work returns a candidate with no candidate before it in
\* (priority rank, last_updated): critical before high before medium before
\* low, then the oldest timestamp, missing and unparsable ones last.
C15_SelectsMinimal ==
    (selection # <<>> /\ Ranked)
    => /\ selection[1] \in Range(projects)
       /\ \A i \in 1..Len(projects) : ~Before(projects[i], selection[1])

\* among [low, critical, high] the critical one was selected, though the low
\* one is the oldest
C15_Witness ==
    /\ Len(projects) = 3
    /\ <<projects[1].priority, projects[2].priority, projects[3].priority>> = <<"low", "critical", "high">>
    /\ projects[1].last_updated = Naive(10)
    /\ projects[2].last_updated = Naive(12)
    /\ selection = <<projects[2]>>

(***************************************************************************)
(* run_cycle.  The records are shared with other actors, who claim,         *)
(* release and complete projects while dispatch waits for the gh CLI, so    *)
(* one pass of the for loop is one step and other actors act between two    *)
(* passes.                                                                  *)
(***************************************************************************)
MaxDispatches == 3          \* run_cycle is called with max_dispatches up to this

OtherAgent == "a1"          \* an actor other than this dispatcher

DispatchTime == Aware(20, 0)    \* datetime.now(timezone.utc) when claim_project writes

is_already_assigned(project) == project.owner # NoOwner

\* slip: the attempted projects are not filtered out
available_projects_unfiltered(ready_projects, attempted_paths) == ready_projects

available_projects(ready_projects, attempted_paths) ==
    SelectSeq(ready_projects, LAMBDA p : p.path \notin attempted_paths)

\* the record read from project["path"], with owner and last_updated set, written back
dispatcher_claim_project(ps, project, agent_name) ==
    [i \in 1..Len(ps) |->
        IF ps[i].path = project.path
        THEN [ps[i] EXCEPT !.owner = agent_name, !.last_updated = DispatchTime]
        ELSE ps[i]]

\* dispatch returns True or False (ok) and leaves the records as `projects`;
\* issue_created and claim_written are the outcomes of the gh CLI and of the
\* write to AGENCY.md
dispatch(ps, project, issue_created, claim_written) ==
    IF is_already_assigned(project) THEN [ok |-> FALSE, projects |-> ps]
    ELSE IF ~dry_run /\ ~issue_created THEN [ok |-> FALSE, projects |-> ps]
    ELSE IF dry_run THEN [ok |-> TRUE, projects |-> ps]
    ELSE IF ~claim_written THEN [ok |-> FALSE, projects |-> ps]
    ELSE [ok |-> TRUE, projects |-> dispatcher_claim_project(ps, project, DEFAULT_AGENT_NAME)]

InitDispatch ==
    /\ projects = <<DispatchProject("A", "high", Naive(10)),
                    DispatchProject("B", "high", Naive(12)),
                    DispatchProject("C", "high", Aware(13, 2))>>
    /\ dry_run \in BOOLEAN
    /\ cycle = NoCycle
    /\ dispatch_calls = <<>>
    /\ selection = <<>>
    /\ REQUIRE_AUTH = TRUE
    /\ HIVE_API_KEY = NoKey
    /\ now = 0
    /\ store = EmptyStore
    /\ next_uuid = 1
    /\ response = NoResponse
    /\ granted = [pid \in ProjectIds |-> <<>>]
    /\ grant = [pid \in ProjectIds |-> NoGrant]
    /\ LoopIdle
    /\ WeaverIdle

\* run_cycle up to its for loop
run_cycle_start(max_dispatches, environment_ok) ==
    /\ cycle.pc \in {"idle", "done"}
    /\ dispatch_calls' = <<>>
    /\ selection' = <<>>
    /\ LET ready_projects == ready_work(projects)
       IN cycle' = IF (~dry_run /\ ~environment_ok) \/ ready_projects = <<>>
                   THEN [NoCycle EXCEPT !.pc = "done", !.max_dispatches = max_dispatches]
                   ELSE [pc |-> "loop", max_dispatches |-> max_dispatches, iteration |-> 0,
                         ready_projects |-> ready_projects, attempted_paths |-> {},
                         dispatched |-> 0]
    /\ UNCHANGED <<REQUIRE_AUTH, HIVE_API_KEY, now, store, next_uuid, response, granted, grant,
                   projects, dry_run, loop_vars, weaver_vars>>

\* one pass of `for _ in range(max_dispatches)`, and the end of the loop after the last
run_cycle_iteration(issue_created, claim_written) ==
    /\ cycle.pc = "loop"
    /\ cycle.iteration < cycle.max_dispatches
    /\ LET ready_projects == IF cycle.dispatched > 0 THEN ready_work(projects)
                             ELSE cycle.ready_projects
           project == select_work(available_projects(ready_projects, cycle.attempted_paths))
       IN /\ selection' = project
          /\ IF project = <<>>
             THEN /\ cycle' = [cycle EXCEPT !.pc = "done", !.ready_projects = ready_projects]
                  /\ UNCHANGED <<projects, dispatch_calls>>
             ELSE LET done == dispatch(projects, project[1], issue_created, claim_written)
                  IN /\ cycle' = [cycle EXCEPT
                                    !.pc = IF cycle.iteration + 1 = cycle.max_dispatches
                                           THEN "done" ELSE "loop",
                                    !.iteration = @ + 1,
                                    !.ready_projects = ready_projects,
                                    !.attempted_paths = @ \cup {project[1].path},
                                    !.dispatched = IF done.ok THEN @ + 1 ELSE @]
                     /\ dispatch_calls' = Append(dispatch_calls, project[1].path)
                     /\ projects' = done.projects
    /\ UNCHANGED <<REQUIRE_AUTH, HIVE_API_KEY, now, store, next_uuid, response, granted, grant,
                   dry_run, loop_vars, weaver_vars>>

\* another actor writes a record
other_actor(ps) ==
    /\ projects' = ps
    /\ UNCHANGED <<REQUIRE_AUTH, HIVE_API_KEY, now, store, next_uuid, response, granted, grant,
                   dispatcher_vars, loop_vars, weaver_vars>>

other_claims(i) ==
    /\ projects[i].owner = NoOwner
    /\ other_actor([projects EXCEPT ![i].owner = OtherAgent])

other_releases(i) ==
    /\ projects[i].owner # NoOwner
    /\ other_actor([projects EXCEPT ![i].owner = NoOwner])

other_completes(i) ==
    /\ projects[i].status = "active"
    /\ other_actor([projects EXCEPT ![i].status = "completed"])

NextDispatch ==
    \/ \E max_dispatches \in 1..MaxDispatches, environment_ok \in BOOLEAN :
            run_cycle_start(max_dispatches, environment_ok)
    \/ \E issue_created, claim_written \in BOOLEAN : run_cycle_iteration(issue_created, claim_written)
    \/ \E i \in 1..Len(projects) : other_claims(i)
    \/ \E i \in 1..Len(projects) : other_releases(i)
    \/ \E i \in 1..Len(projects) : other_completes(i)

SpecDispatch == InitDispatch /\ [][NextDispatch]_vars

\* C12: within one run_cycle call no project is handed to dispatch twice.
C12_AtMostOncePerCycle ==
    \A i, j \in 1..Len(dispatch_calls) : i # j => dispatch_calls[i] # dispatch_calls[j]

\* three attempts in one cycle, a failed one among them after a successful one
C12_Witness ==
    /\ Len(dispatch_calls) = 3
    /\ cycle.dispatched = 1
    /\ \E i \in 1..Len(projects) :
        /\ projects[i].owner = DEFAULT_AGENT_NAME
        /\ projects[i].path = dispatch_calls[1]

\* the paths of the projects that are ready by the records as they are now
ReadyPaths == {ready_work(projects)[i].path : i \in 1..Len(ready_work(projects))}

\* C13: a cycle makes at most max_dispatches attempts, and when its loop ends
\* after fewer, no project that is ready and not yet attempted is left.
C13_AttemptBound ==
    [][/\ Len(dispatch_calls') <= cycle'.max_dispatches
       /\ (/\ cycle.pc = "loop"
           /\ cycle'.pc = "done"
           /\ Len(dispatch_calls') < cycle'.max_dispatches)
          => ReadyPaths \subseteq cycle'.attempted_paths]_vars

\* C14: after an attempt, the next project selected is one that is ready by
\* the records as they are when it is selected.
C14_SelectsFromCurrentRecords ==
    [][(/\ Len(dispatch_calls) >= 1
        /\ Len(dispatch_calls') = Len(dispatch_calls) + 1)
       => dispatch_calls'[Len(dispatch_calls')] \in ReadyPaths]_vars

(***************************************************************************)
(* YoloLoop (src/src/yolo_loop.py).                                        *)
(*                                                                         *)
(* run() is followed pass by pass of its for loop: the executor call       *)
(* blocks, so stop() from another thread and the passing of time fall      *)
(* between two passes.  An executor call is an input: whether it succeeds  *)
(* and what it prints.  Text is a sequence of characters.  The logs        *)
(* end_time, error_log and iteration_history are written and never read    *)
(* by the loop; they are left out.                                         *)
(***************************************************************************)
MaxIterations == 3          \* config.max_iterations is at most this
MaxThreshold == 2           \* config.circuit_breaker_threshold is at most this
MaxRuns == 2                \* run() is called at most this many times on one loop
MaxLoopTicks == 3           \* the loop's clock advances at most this many times

LoopTickSeconds == 1800     \* seconds the loop's clock advances at a time
HourSeconds == 3600         \* the rate-limit window of _check_rate_limit
TimeoutSeconds == 1800      \* config.timeout_seconds: shorter than the rate-limit window

Terminal == {"completed", "failed", "cancelled", "timeout", "circuit_break"}

Configs ==
    [max_iterations : 0..MaxIterations,
     timeout_seconds : {TimeoutSeconds},
     circuit_breaker_threshold : 0..MaxThreshold,
     rate_limit_per_hour : {2, 100},
     completion_markers : {<< <<"O", "k">> >>}]

Outputs == {<<"n", "o">>, <<"x", "o", "K">>, <<"o", "x", "k">>}

\* str.upper on the characters in use
upper(text) ==
    [i \in 1..Len(text) |->
        CASE text[i] = "o" -> "O"
          [] text[i] = "k" -> "K"
          [] text[i] = "x" -> "X"
          [] text[i] = "n" -> "N"
          [] OTHER -> text[i]]

\* marker in text: the substring test of Python
contains(text, marker) ==
    \E i \in 0..(Len(text) - Len(marker)) : SubSeq(text, i + 1, i + Len(marker)) = marker

\* _check_rate_limit changes the state and returns whether the call may go on
rate_limit_window(st, current_time) ==
    IF current_time - st.hour_started > HourSeconds
    THEN [st EXCEPT !.api_calls_this_hour = 0, !.hour_started = current_time]
    ELSE st

_check_rate_limit(st, current_time) ==
    ~(rate_limit_window(st, current_time).api_calls_this_hour >= config.rate_limit_per_hour)

\* slip: the breaker opens one failure late
_check_circuit_breaker_late(st) ==
    ~(st.consecutive_failures > config.circuit_breaker_threshold)

_check_circuit_breaker(st) ==
    ~(st.consecutive_failures >= config.circuit_breaker_threshold)

\* slip: the marker is looked for as written, case and all
_check_completion_exact(output) ==
    \E m \in 1..Len(config.completion_markers) : contains(output, config.completion_markers[m])

_check_completion(output) ==
    \E m \in 1..Len(config.completion_markers) :
        contains(upper(output), upper(config.completion_markers[m]))

\* slip: a failed call is not counted
consecutive_failures_uncounted(failures, success) ==
    IF success THEN 0 ELSE failures

\* the counter of failures in a row after one executor call
consecutive_failures_after(failures, success) ==
    IF success THEN 0 ELSE failures + 1

InitLoop ==
    /\ config \in Configs
    /\ state = NoState
    /\ stop_requested = FALSE
    /\ clock = 0
    /\ frame = NoFrame
    /\ executor_calls = <<>>
    /\ projects = <<>>
    /\ DispatcherIdle
    /\ WeaverIdle
    /\ REQUIRE_AUTH = TRUE
    /\ HIVE_API_KEY = NoKey
    /\ now = 0
    /\ store = EmptyStore
    /\ next_uuid = 1
    /\ response = NoResponse
    /\ granted = [pid \in ProjectIds |-> <<>>]
    /\ grant = [pid \in ProjectIds |-> NoGrant]

LoopOnly ==
    UNCHANGED <<REQUIRE_AUTH, HIVE_API_KEY, now, store, next_uuid, response, granted, grant,
                projects, dispatcher_vars, weaver_vars, config>>

\* stop(), from any thread
stop ==
    /\ stop_requested' = TRUE
    /\ UNCHANGED <<state, clock, frame, executor_calls>>
    /\ LoopOnly

\* run() up to its for loop
run_start ==
    /\ frame.pc = "idle"
    /\ frame.runs < MaxRuns
    /\ state' = [state EXCEPT !.status = "running", !.start_time = clock]
    /\ frame' = [pc |-> "loop", iteration |-> 1, runs |-> frame.runs + 1, skipped |-> 0,
                 entry_failures |-> state.consecutive_failures]
    /\ executor_calls' = <<>>
    /\ UNCHANGED <<stop_requested, clock>>
    /\ LoopOnly

\* slip: the range runs one iteration too far
in_range_one_more(iteration) == iteration <= config.max_iterations + 1

\* iteration in range(1, max_iterations + 1), for iteration >= 1
in_range(iteration) == iteration <= config.max_iterations

\* slip: the loop ends without its end_time
finally_block_skipped(st, current_time) == st

\* the finally block of run(): end_time is set, whichever way the loop was left
finally_block(st, current_time) == [st EXCEPT !.end_time = current_time]

\* slip: a pass that waited for the rate limit is made again
next_pass_retrying(fr, branch) ==
    IF branch = "wait" THEN fr ELSE [fr EXCEPT !.iteration = @ + 1]

\* the for statement takes the next value of the range, after `continue` as
\* after a pass that ran to its end
next_pass(fr, branch) ==
    [fr EXCEPT !.iteration = @ + 1, !.skipped = IF branch = "wait" THEN @ + 1 ELSE @]

\* the loop is left by break: the finally block runs and run() returns
Leave(status) ==
    /\ state' = finally_block([state EXCEPT !.status = status], clock)
    /\ frame' = [frame EXCEPT !.pc = "idle"]
    /\ UNCHANGED executor_calls

\* slip: the limits are looked at before the stop flag
pass_branch_limits_first(st, current_time) ==
    IF ~_check_rate_limit(st, current_time) THEN "wait"
    ELSE IF ~_check_circuit_breaker(st) THEN "circuit_break"
    ELSE IF current_time - st.start_time > config.timeout_seconds THEN "timeout"
    ELSE IF stop_requested THEN "cancelled"
    ELSE "execute"

\* the checks at the top of a pass, in their order, and what the pass does
pass_branch(st, current_time) ==
    IF stop_requested THEN "cancelled"
    ELSE IF ~_check_rate_limit(st, current_time) THEN "wait"
    ELSE IF ~_check_circuit_breaker(st) THEN "circuit_break"
    ELSE IF current_time - st.start_time > config.timeout_seconds THEN "timeout"
    ELSE "execute"

\* one pass of `for iteration in range(1, max_iterations + 1)`
run_iteration(success, output) ==
    /\ frame.pc = "loop"
    /\ in_range(frame.iteration)
    /\ LET branch == pass_branch(state, clock)
           \* _check_rate_limit has run in every pass that got past the stop flag
           checked == IF stop_requested THEN state ELSE rate_limit_window(state, clock)
       IN CASE branch = "wait" ->
                 /\ state' = checked
                 /\ frame' = next_pass(frame, branch)
                 /\ UNCHANGED executor_calls
            [] branch \in {"cancelled", "circuit_break", "timeout"} ->
                 /\ state' = finally_block([checked EXCEPT !.status = branch], clock)
                 /\ frame' = [frame EXCEPT !.pc = "idle"]
                 /\ UNCHANGED executor_calls
            [] branch = "execute" ->
                 LET complete == success /\ _check_completion(output)
                     ran == [checked EXCEPT
                                 !.current_iteration = frame.iteration,
                                 !.api_calls_this_hour = @ + 1,
                                 !.last_output = output,
                                 !.consecutive_failures = consecutive_failures_after(@, success)]
                 IN /\ executor_calls' = Append(executor_calls,
                             [iteration |-> frame.iteration, success |-> success,
                              output |-> output])
                    /\ IF complete
                       THEN /\ state' = finally_block([ran EXCEPT !.status = "completed"], clock)
                            /\ frame' = [frame EXCEPT !.pc = "idle"]
                       ELSE /\ state' = ran
                            /\ frame' = next_pass(frame, branch)
    /\ UNCHANGED <<stop_requested, clock>>
    /\ LoopOnly

\* the else clause of the for loop: the range is exhausted
run_exhausted ==
    /\ frame.pc = "loop"
    /\ ~in_range(frame.iteration)
    /\ state' = finally_block(IF state.status = "running"
                               THEN [state EXCEPT !.status = "failed"] ELSE state, clock)
    /\ frame' = [frame EXCEPT !.pc = "idle"]
    /\ UNCHANGED <<stop_requested, clock, executor_calls>>
    /\ LoopOnly

\* Ctrl+C while run() is in its loop
keyboard_interrupt ==
    /\ frame.pc = "loop"
    /\ Leave("cancelled")
    /\ UNCHANGED <<stop_requested, clock>>
    /\ LoopOnly

LoopTick ==
    /\ clock < MaxLoopTicks * LoopTickSeconds
    /\ clock' = clock + LoopTickSeconds
    /\ UNCHANGED <<state, stop_requested, frame, executor_calls>>
    /\ LoopOnly

NextLoop ==
    \/ stop
    \/ run_start
    \/ \E success \in BOOLEAN, output \in Outputs : run_iteration(success, output)
    \/ run_exhausted
    \/ keyboard_interrupt
    \/ LoopTick

SpecLoop == InitLoop /\ [][NextLoop]_vars

\* C16: once the status of a loop is completed, failed, cancelled, timeout or
\* circuit_break, no later operation on the loop, run() and stop() included,
\* changes the status.
C16_TerminalIsFinal ==
    [][state.status \in Terminal => state'.status = state.status]_vars

\* run() has returned
RunEnded == frame.pc = "idle" /\ frame.runs >= 1

\* every executor call of the run failed
AlwaysFailing == \A i \in 1..Len(executor_calls) : ~executor_calls[i].success

\* no pass of the run was skipped for the rate limit, and the run was neither
\* cancelled nor timed out
Undisturbed == frame.skipped = 0 /\ state.status \notin {"cancelled", "timeout"}

\* C17 as stated: with an executor that fails on every call and
\* max_iterations >= circuit_breaker_threshold, without cancellation, rate
\* limiting or timeout, run() ends with status circuit_break after exactly
\* circuit_breaker_threshold executor calls.
C17_BreaksAtThreshold ==
    (/\ RunEnded /\ AlwaysFailing /\ Undisturbed
     /\ config.max_iterations >= config.circuit_breaker_threshold)
    => (/\ state.status = "circuit_break"
        /\ Len(executor_calls) = config.circuit_breaker_threshold)

\* C17 amended: the same for a run entered with consecutive_failures = 0 and
\* max_iterations > circuit_breaker_threshold, so that a pass is left in which
\* the breaker is looked at.
C17_BreaksAfterThreshold ==
    (/\ RunEnded /\ AlwaysFailing /\ Undisturbed
     /\ frame.entry_failures = 0
     /\ config.max_iterations > config.circuit_breaker_threshold)
    => (/\ state.status = "circuit_break"
        /\ Len(executor_calls) = config.circuit_breaker_threshold)

C17_Witness ==
    /\ RunEnded /\ AlwaysFailing /\ Undisturbed
    /\ frame.entry_failures = 0
    /\ config.max_iterations > config.circuit_breaker_threshold
    /\ config.circuit_breaker_threshold = MaxThreshold
    /\ Len(executor_calls) = MaxThreshold
    /\ state.status = "circuit_break"

\* C18: the executor is never invoked while consecutive_failures >=
\* circuit_breaker_threshold, and consecutive_failures never exceeds
\* circuit_breaker_threshold.
C18_BreakerGuardsExecutor ==
    /\ [](state.consecutive_failures <= config.circuit_breaker_threshold)
    /\ [][Len(executor_calls') = Len(executor_calls) + 1
          => state.consecutive_failures < config.circuit_breaker_threshold]_vars

C18_Witness ==
    /\ RunEnded
    /\ state.status = "circuit_break"
    /\ config.circuit_breaker_threshold = MaxThreshold
    /\ state.consecutive_failures = MaxThreshold
    /\ frame.entry_failures > 0
    /\ Len(executor_calls) = MaxThreshold - frame.entry_failures

\* the output holds one of the configured markers, whatever the case of letters
HasMarker(output) ==
    \E m \in 1..Len(config.completion_markers) :
        \E i \in 0..(Len(output) - Len(config.completion_markers[m])) :
            \A j \in 1..Len(config.completion_markers[m]) :
                upper(<<output[i + j]>>) = upper(<<config.completion_markers[m][j]>>)

\* the calls of the run that succeeded with a marker in their output
Completing == {i \in 1..Len(executor_calls) :
                  executor_calls[i].success /\ HasMarker(executor_calls[i].output)}

\* C19: when iteration k is the first successful one whose output holds a
\* completion marker (as a substring, whatever the case) and no pass was
\* skipped for the rate limit before it, run() has ended with status completed,
\* current_iteration = k and exactly k executor calls: no iteration k + 1.
C19_CompletesAtFirstMarker ==
    (Completing # {} /\ frame.skipped = 0)
    => LET k == CHOOSE i \in Completing : \A j \in Completing : i <= j
       IN /\ executor_calls[k].iteration = k
          /\ Len(executor_calls) = k
          /\ state.current_iteration = k
          /\ state.status = "completed"
          /\ RunEnded

C19_Witness ==
    /\ RunEnded
    /\ state.status = "completed"
    /\ frame.skipped = 0
    /\ Len(executor_calls) = MaxIterations
    /\ state.current_iteration = MaxIterations
    /\ ~executor_calls[1].success /\ HasMarker(executor_calls[1].output)
    /\ state.last_output = <<"x", "o", "K">>

\* C20: a run makes at most max_iterations executor calls; when it has made
\* max_iterations of them, none completing, and was not cancelled, broken by
\* the circuit breaker or timed out, it ends with status failed and
\* current_iteration = max_iterations.
C20_FailsAtMaxIterations ==
    /\ Len(executor_calls) <= config.max_iterations
    /\ (/\ RunEnded
        /\ Len(executor_calls) = config.max_iterations
        /\ Completing = {}
        /\ state.status \notin {"cancelled", "circuit_break", "timeout"})
       => (/\ state.status = "failed"
           /\ state.current_iteration = config.max_iterations)

C20_Witness ==
    /\ RunEnded
    /\ config.max_iterations = MaxIterations
    /\ Len(executor_calls) = MaxIterations
    /\ state.status = "failed"
    /\ state.current_iteration = MaxIterations
    /\ \E i \in 1..Len(executor_calls) : executor_calls[i].success
    /\ \E i \in 1..Len(executor_calls) :
          ~executor_calls[i].success /\ HasMarker(executor_calls[i].output)

C22_WaitKeepsBudget ==
    (RunEnded /\ state.status = "failed")
    => (/\ Len(executor_calls) = config.max_iterations
        /\ state.current_iteration = Len(executor_calls))

\* C23: no executor call begins once the time since start_time exceeds
\* timeout_seconds: a pass made then, with no cancellation and the circuit
\* breaker closed, sets status timeout and leaves the loop.
C23_TimeoutStopsLoop ==
    [][(frame.pc = "loop" /\ clock - state.start_time > config.timeout_seconds)
       => /\ Len(executor_calls') <= Len(executor_calls)
          /\ (/\ in_range(frame.iteration) /\ frame' # frame
              /\ ~stop_requested /\ state'.status # "cancelled"
              /\ _check_circuit_breaker(state))
             => (state'.status = "timeout" /\ frame'.pc = "idle")]_vars

(***************************************************************************)
(* LoomWeaver, YoloRunner.run_project and the yolo_project tool            *)
(* (src/src/yolo_loop.py, src/src/hive_mcp/server.py).                     *)
(*                                                                         *)
(* weave runs on the main thread and run_loop on the threads of a          *)
(* ThreadPoolExecutor; every thread is followed from one access to shared  *)
(* state (an AGENCY.md file, active_loops, a loop's stop flag, a future)   *)
(* to the next.  The loop a thread runs is YoloLoop.run reduced to what    *)
(* the weaver can see of it: the stop flag is tested first in every pass,  *)
(* a limit may end the loop before the iteration, the iteration ends the   *)
(* loop or not (failed stands for the range exhausted).  Other agents edit *)
(* the records, and claim projects that have no owner.                     *)
(***************************************************************************)
MaxParallel == 2            \* max_parallel_agents is at most this
MaxRunners == 1             \* run_project or yolo_project is called at most this many times
TotalTimeoutSeconds == 900  \* total_timeout_seconds
MaxAgentEdits == 1          \* other agents edit the records at most this many times during a batch

NoReason == ""

WeaveProject(id, blocked_by) ==
    [path |-> id, blocking_reason |-> NoReason]
    @@ [FreshProject(id) EXCEPT !.blocked_by = blocked_by]

\* the loop created for a project: loop.loop_id
loop_id(caller, project_id) == (IF caller = "weave" THEN "w-" ELSE "r-") \o project_id

CallerOf(l) == IF l \in {"w-A", "w-B", "w-C"} THEN "weave" ELSE "run_project"

\* the position in the records of the file at a path
FileAt(ps, path) == CHOOSE i \in 1..Len(ps) : ps[i].path = path

\* LoomWeaver.claim_project: the file is read again, only its owner is looked at
weaver_claim_project(ps, path, l) ==
    LET i == FileAt(ps, path)
    IN IF ps[i].owner # NoOwner
       THEN [ok |-> FALSE, projects |-> ps]
       ELSE [ok |-> TRUE, projects |-> [ps EXCEPT ![i].owner = "yolo-loop:" \o l]]

\* slip: a cancelled or timed out loop leaves its project blocked as well
weaver_release_project_blocking(ps, path, l, status) ==
    LET i == FileAt(ps, path)
        released == [ps[i] EXCEPT !.owner = NoOwner]
    IN [ps EXCEPT ![i] =
            IF status = "completed" THEN [released EXCEPT !.status = "completed"]
            ELSE [released EXCEPT !.blocked = TRUE,
                                  !.blocking_reason = "YOLO loop " \o l \o " ended with status: " \o status]]

\* LoomWeaver.release_project
weaver_release_project(ps, path, l, status) ==
    LET i == FileAt(ps, path)
        released == [ps[i] EXCEPT !.owner = NoOwner]
    IN [ps EXCEPT ![i] =
            IF status = "completed" THEN [released EXCEPT !.status = "completed"]
            ELSE IF status \in {"failed", "circuit_break"}
            THEN [released EXCEPT !.blocked = TRUE,
                                  !.blocking_reason = "YOLO loop " \o l \o " ended with status: " \o status]
            ELSE released]

ReadyIds(ps) == {ready_work(ps)[i].project_id : i \in 1..Len(ready_work(ps))}

InitWeave ==
    /\ \E blocked_by \in {<<>>, <<"A">>} :
          projects = <<WeaveProject("A", <<>>), WeaveProject("B", <<>>),
                       WeaveProject("C", blocked_by)>>
    /\ WeaverIdle
    /\ DispatcherIdle
    /\ LoopIdle
    /\ REQUIRE_AUTH = TRUE
    /\ HIVE_API_KEY = NoKey
    /\ now = 0
    /\ store = EmptyStore
    /\ next_uuid = 1
    /\ response = NoResponse
    /\ granted = [pid \in ProjectIds |-> <<>>]
    /\ grant = [pid \in ProjectIds |-> NoGrant]

WeaveOnly ==
    UNCHANGED <<REQUIRE_AUTH, HIVE_API_KEY, now, store, next_uuid, response, granted, grant,
                dispatcher_vars, config, state, stop_requested, frame, executor_calls, loops,
                claim_calls>>

\* executor.submit(run_loop, project) for the projects of a list, in order
submit(ws, batch) ==
    [l \in LoopIds |->
        IF \E i \in 1..Len(batch) : l = loop_id("weave", batch[i])
        THEN [NoWorker EXCEPT !.pc = "submitted", !.project = CHOOSE p \in {batch[i] : i \in 1..Len(batch)} : l = loop_id("weave", p)]
        ELSE ws[l]]

FuturesOf(batch) == [i \in 1..Len(batch) |-> loop_id("weave", batch[i])]

\* slip: the first batch takes one project more than there are agents
initial_batch_one_more(ready, max_parallel_agents) ==
    SubSeq(ready, 1, Min(Len(ready), max_parallel_agents + 1))

\* ready_projects[:self.max_parallel_agents]
initial_batch(ready, max_parallel_agents) ==
    SubSeq(ready, 1, Min(Len(ready), max_parallel_agents))

\* weave up to its while loop
weave_start(max_parallel_agents) ==
    /\ weaver.pc = "idle"
    /\ LET ready_projects == [i \in 1..Len(ready_work(projects)) |-> ready_work(projects)[i].path]
           batch == initial_batch(ready_projects, max_parallel_agents)
       IN IF ready_projects = <<>>
          THEN /\ weaver' = [weaver EXCEPT !.pc = "returned",
                                           !.max_parallel_agents = max_parallel_agents,
                                           !.total_timeout_seconds = TotalTimeoutSeconds,
                                           !.start_time = clock]
               /\ UNCHANGED workers
          ELSE /\ weaver' = [weaver EXCEPT !.pc = "poll",
                                           !.max_parallel_agents = max_parallel_agents,
                                           !.total_timeout_seconds = TotalTimeoutSeconds,
                                           !.start_time = clock,
                                           !.futures = FuturesOf(batch),
                                           !.project_queue = SubSeq(ready_projects, Len(batch) + 1,
                                                                    Len(ready_projects))]
               /\ workers' = submit(workers, batch)
    /\ UNCHANGED <<projects, clock>>
    /\ WeaveOnly

\* one pass of `while futures`
weave_poll ==
    /\ weaver.pc = "poll"
    /\ IF clock - weaver.start_time > weaver.total_timeout_seconds
       THEN /\ workers' = [l \in LoopIds |->
                              IF l \in weaver.active_loops
                              THEN [workers[l] EXCEPT !.stop_requested = TRUE]
                              ELSE workers[l]]
            /\ weaver' = [weaver EXCEPT !.pc = "shutdown", !.deadline = TRUE]
       ELSE LET done == SelectSeq(weaver.futures, LAMBDA l : workers[l].pc = "done")
                pending == SelectSeq(weaver.futures, LAMBDA l : workers[l].pc # "done")
                refill == SubSeq(weaver.project_queue, 1, Min(Len(done), Len(weaver.project_queue)))
                futures == pending \o FuturesOf(refill)
            IN /\ weaver' = [weaver EXCEPT
                                !.results = @ \cup {done[i] : i \in {j \in 1..Len(done) : workers[done[j]].claimed}},
                                !.futures = futures,
                                !.project_queue = SubSeq(@, Len(refill) + 1, Len(@)),
                                !.pc = IF futures = <<>> THEN "shutdown" ELSE "poll"]
               /\ workers' = submit(workers, refill)
    /\ UNCHANGED <<projects, clock>>
    /\ WeaveOnly

\* the end of the `with ThreadPoolExecutor` block: shutdown(wait=True), then return
weave_return ==
    /\ weaver.pc = "shutdown"
    /\ \A l \in LoopIds : CallerOf(l) = "weave" => workers[l].pc \in {"none", "done"}
    /\ weaver' = [weaver EXCEPT !.pc = "returned"]
    /\ UNCHANGED <<projects, workers, clock>>
    /\ WeaveOnly

\* run_loop up to the claim: a thread of the pool takes the work item
run_loop_claim(l) ==
    /\ CallerOf(l) = "weave"
    /\ workers[l].pc = "submitted"
    /\ LET claim == weaver_claim_project(projects, workers[l].project, l)
       IN /\ projects' = claim.projects
          /\ workers' = [workers EXCEPT ![l].pc = IF claim.ok THEN "claimed" ELSE "done",
                                        ![l].claimed = claim.ok]
          /\ weaver' = [weaver EXCEPT !.unblocked = @ \cap ReadyIds(claim.projects)]
    /\ UNCHANGED clock
    /\ WeaveOnly

\* run_loop: the loop is registered and loop.run() entered
run_loop_register(l) ==
    /\ CallerOf(l) = "weave"
    /\ workers[l].pc = "claimed"
    /\ weaver' = [weaver EXCEPT !.active_loops = @ \cup {l}]
    /\ workers' = [workers EXCEPT ![l].pc = "running", ![l].status = "running"]
    /\ UNCHANGED <<projects, clock>>
    /\ WeaveOnly

\* run_project and the yolo_project tool: claim, whose result is not looked at, and run
run_project(path) ==
    /\ LET l == loop_id("run_project", path)
           claim == weaver_claim_project(projects, path, l)
       IN /\ weaver.pc # "returned"
          /\ workers[l].pc = "none"
          /\ Cardinality({r \in LoopIds : CallerOf(r) = "run_project" /\ workers[r].pc # "none"}) < MaxRunners
          /\ projects' = claim.projects
          /\ workers' = [workers EXCEPT ![l] = [NoWorker EXCEPT !.pc = "running", !.project = path,
                                                               !.status = "running",
                                                               !.claimed = claim.ok]]
          /\ weaver' = [weaver EXCEPT !.unblocked = @ \cap ReadyIds(claim.projects)]
    /\ UNCHANGED clock
    /\ WeaveOnly

\* one pass of the loop of a thread: outcome is what the iteration leads to
loop_pass(l, outcome) ==
    /\ workers[l].pc = "running"
    /\ workers[l].status = "running"
    /\ workers' = [workers EXCEPT ![l] =
            IF @.stop_requested THEN [@ EXCEPT !.status = "cancelled"]
            ELSE IF outcome \in {"timeout", "circuit_break"} THEN [@ EXCEPT !.status = outcome]
            ELSE [@ EXCEPT !.late = @ \/ (CallerOf(l) = "weave" /\ weaver.deadline),
                           !.status = IF outcome = "working" THEN "running" ELSE outcome]]
    /\ UNCHANGED <<projects, weaver, clock>>
    /\ WeaveOnly

\* after loop.run(): the loop leaves active_loops, the project is released, the
\* thread's future is done
loop_finish(l) ==
    /\ workers[l].pc = "running"
    /\ workers[l].status \in Terminal
    /\ LET released == weaver_release_project(projects, workers[l].project, l, workers[l].status)
       IN /\ projects' = released
          /\ weaver' = [weaver EXCEPT
                            !.active_loops = @ \ {l},
                            !.unblocked = IF /\ CallerOf(l) = "weave" /\ weaver.pc = "poll"
                                             /\ clock - weaver.start_time <= weaver.total_timeout_seconds
                                          THEN (@ \cup (ReadyIds(released) \ ReadyIds(projects)))
                                               \cap ReadyIds(released)
                                          ELSE @ \cap ReadyIds(released)]
    /\ workers' = [workers EXCEPT ![l].pc = "done", ![l].releases = @ + 1]
    /\ UNCHANGED clock
    /\ WeaveOnly

\* another agent, or a person, edits the record of a project
agent_edits(ps) ==
    /\ weaver.pc # "returned"
    /\ weaver.edits < MaxAgentEdits
    /\ projects' = ps
    /\ weaver' = [weaver EXCEPT !.unblocked = @ \cap ReadyIds(ps), !.edits = @ + 1]
    /\ UNCHANGED <<workers, clock>>
    /\ WeaveOnly

agent_claims(i) ==
    /\ projects[i].owner = NoOwner
    /\ projects[i].status = "active"
    /\ agent_edits([projects EXCEPT ![i].owner = OtherAgent])

agent_blocks(i) ==
    /\ projects[i].status = "active"
    /\ ~projects[i].blocked
    /\ agent_edits([projects EXCEPT ![i].blocked = TRUE])

agent_completes(i) ==
    /\ projects[i].status = "active"
    /\ agent_edits([projects EXCEPT ![i].status = "completed"])

\* time passes; it is followed until the deadline of the batch has passed
WeaveTick ==
    /\ weaver.pc = "poll"
    /\ clock - weaver.start_time <= weaver.total_timeout_seconds
    /\ clock' = clock + LoopTickSeconds
    /\ UNCHANGED <<projects, weaver, workers>>
    /\ WeaveOnly

NextWeave ==
    \/ \E max_parallel_agents \in 1..MaxParallel : weave_start(max_parallel_agents)
    \/ weave_poll
    \/ weave_return
    \/ \E l \in LoopIds : run_loop_claim(l)
    \/ \E l \in LoopIds : run_loop_register(l)
    \/ \E l \in LoopIds, outcome \in {"working", "completed", "failed", "timeout", "circuit_break"} :
            loop_pass(l, outcome)
    \/ \E l \in LoopIds : loop_finish(l)
    \/ \E i \in 1..Len(projects) : agent_claims(i)
    \/ \E i \in 1..Len(projects) : agent_blocks(i)
    \/ \E i \in 1..Len(projects) : agent_completes(i)
    \/ WeaveTick

SpecWeave == InitWeave /\ [][NextWeave]_vars

NextRunner ==
    \/ \E i \in 1..Len(projects) : run_project(projects[i].path)
    \/ \E l \in LoopIds, outcome \in {"working", "completed", "failed", "timeout", "circuit_break"} :
            loop_pass(l, outcome)
    \/ \E l \in LoopIds : loop_finish(l)
    \/ \E i \in 1..Len(projects) : agent_claims(i)
    \/ \E i \in 1..Len(projects) : agent_blocks(i)
    \/ \E i \in 1..Len(projects) : agent_completes(i)

SpecRunner == InitWeave /\ [][NextRunner]_vars

\* the loops of the batch submitted to the pool and not yet finished
InFlight == {l \in LoopIds : CallerOf(l) = "weave" /\ workers[l].pc \in {"submitted", "claimed", "running"}}

\* C24: at every moment of weave the number of loops in flight is at most
\* max_parallel_agents.
C24_BoundedInFlight ==
    weaver.pc # "idle" => Cardinality(InFlight) <= weaver.max_parallel_agents

C24_Witness ==
    /\ weaver.pc = "poll"
    /\ weaver.max_parallel_agents = 2
    /\ Cardinality(InFlight) = 2
    /\ weaver.results # {}
    /\ weaver.project_queue = <<>>
    /\ \A l \in LoopIds : CallerOf(l) = "weave" => workers[l].pc # "none"

\* C25: for every loop run on a project, the claim of the project is acquired
\* before the loop's first iteration, is held by the loop until it is terminal
\* and is released exactly once afterwards; no loop is run and no claim is
\* released by a caller whose claim attempt failed.
C25_ClaimHeldForLifetime ==
    \A l \in LoopIds :
        LET w == workers[l]
        IN /\ w.status # "pending" => w.claimed
           /\ w.pc = "running" => projects[FileAt(projects, w.project)].owner = "yolo-loop:" \o l
           /\ w.releases > 0 => w.claimed
           /\ w.releases <= 1
           /\ (w.pc = "done" /\ w.claimed) => w.releases = 1

\* C26: release_project sets owner to null for every terminal loop status;
\* it sets status completed exactly when the loop is completed; it sets
\* blocked with a blocking_reason naming the loop exactly when the loop is
\* failed or circuit_break; for cancelled and timeout it changes neither
\* status nor blocked.
C26_ReleaseByOutcome ==
    [][\A l \in LoopIds :
          workers'[l].releases = workers[l].releases + 1
          => LET i == FileAt(projects, workers[l].project)
                 status == workers[l].status
                 before == projects[i]
                 after == projects'[i]
             IN /\ status \in Terminal
                /\ after.owner = NoOwner
                /\ after.status = IF status = "completed" THEN "completed" ELSE before.status
                /\ IF status \in {"failed", "circuit_break"}
                   THEN /\ after.blocked
                        /\ after.blocking_reason = "YOLO loop " \o l \o " ended with status: " \o status
                   ELSE /\ after.blocked = before.blocked
                        /\ after.blocking_reason = before.blocking_reason]_vars

C26_Witness ==
    \E l, k \in LoopIds :
        /\ workers[l].releases = 1 /\ workers[l].status = "circuit_break"
        /\ projects[FileAt(projects, workers[l].project)].blocked
        /\ projects[FileAt(projects, workers[l].project)].owner = NoOwner
        /\ workers[k].releases = 1 /\ workers[k].status = "timeout"
        /\ ~projects[FileAt(projects, workers[k].project)].blocked
        /\ projects[FileAt(projects, workers[k].project)].owner = NoOwner
        /\ projects[FileAt(projects, workers[k].project)].status = "active"

\* C27: every project on which weave starts a loop is ready (active, not
\* blocked, unowned, all blockers completed) by the records as they are when
\* it is claimed.
C27_ClaimsReadyProjects ==
    [][\A l \in LoopIds :
          (CallerOf(l) = "weave" /\ ~workers[l].claimed /\ workers'[l].claimed)
          => workers[l].project \in ReadyIds(projects)]_vars

\* C28: a project that becomes ready while the batch runs, through a release
\* made by a loop of the batch whose slot frees before the deadline, and that
\* stays ready, is claimed within the batch: weave does not return, the
\* deadline not reached, without having submitted it.
C28_NewlyReadyIsPickedUp ==
    (weaver.pc = "returned" /\ ~weaver.deadline)
    => \A p \in weaver.unblocked : workers[loop_id("weave", p)].pc # "none"

\* C29: the map returned by weave holds, for every loop it started, the
\* loop's final state with a terminal status, the loops still running at the
\* deadline included.
C29_ResultsHoldEveryLoop ==
    weaver.pc = "returned"
    => \A l \in LoopIds :
          (CallerOf(l) = "weave" /\ workers[l].claimed)
          => (l \in weaver.results /\ workers[l].status \in Terminal)

\* C30: when the deadline is handled, stop() reaches every loop of the batch
\* that is not terminal, a loop submitted and not yet in active_loops
\* included; no loop of the batch starts an iteration afterwards.
C30_DeadlineStopsEveryLoop ==
    /\ [](\A l \in LoopIds : ~workers[l].late)
    /\ [][(~weaver.deadline /\ weaver'.deadline)
          => \A l \in InFlight :
                workers[l].status \notin Terminal => workers'[l].stop_requested]_vars

\* C31: run_project on a project whose owner is set fails with an error: the
\* loop is never entered and nothing is released, so owner, status and blocked
\* of the project stay as they were.
C31_RunProjectRefusesOwned ==
    \A l \in LoopIds :
        (CallerOf(l) = "run_project" /\ workers[l].pc # "none" /\ ~workers[l].claimed)
        => (workers[l].pc = "done" /\ workers[l].status = "pending" /\ workers[l].releases = 0)

(***************************************************************************)
(* YoloLoop.__init__ and _generate_loop_id: loops are constructed one      *)
(* after the other while time passes.  A prompt is its first 50 characters *)
(* (head) and the rest (tail).  sha256 is taken as injective, its best     *)
(* case: two ids are equal only when the hashed inputs are equal.          *)
(***************************************************************************)
MaxLoops == 3               \* loops constructed
MaxSeconds == 2             \* seconds that pass while they are constructed

Prompts ==
    {[head |-> "Test prompt", tail |-> ""],
     [head |-> "# Project: hive", tail |-> "one"],
     [head |-> "# Project: hive", tail |-> "two"]}

\* _generate_loop_id: the timestamp to the second and the hash of timestamp and prompt[:50]
_generate_loop_id(second, prompt) ==
    [timestamp |-> second, short_hash |-> <<second, prompt.head>>]

InitLoopId ==
    /\ loops = <<>>
    /\ weaver = NoWeaver
    /\ workers = [l \in LoopIds |-> NoWorker]
    /\ claim_calls = [c \in Callers |-> NoCall]
    /\ projects = <<>>
    /\ DispatcherIdle
    /\ LoopIdle
    /\ REQUIRE_AUTH = TRUE
    /\ HIVE_API_KEY = NoKey
    /\ now = 0
    /\ store = EmptyStore
    /\ next_uuid = 1
    /\ response = NoResponse
    /\ granted = [pid \in ProjectIds |-> <<>>]
    /\ grant = [pid \in ProjectIds |-> NoGrant]

LoopIdOnly ==
    UNCHANGED <<REQUIRE_AUTH, HIVE_API_KEY, now, store, next_uuid, response, granted, grant,
                projects, dispatcher_vars, config, state, stop_requested, frame, executor_calls,
                weaver, workers, claim_calls>>

\* YoloLoop(config)
new_loop(prompt) ==
    /\ Len(loops) < MaxLoops
    /\ loops' = Append(loops, [loop_id |-> _generate_loop_id(clock, prompt), prompt |-> prompt,
                               created |-> clock])
    /\ UNCHANGED clock
    /\ LoopIdOnly

\* a second passes
SecondPasses ==
    /\ clock < MaxSeconds
    /\ clock' = clock + 1
    /\ UNCHANGED loops
    /\ LoopIdOnly

NextLoopId ==
    \/ \E prompt \in Prompts : new_loop(prompt)
    \/ SecondPasses

SpecLoopId == InitLoopId /\ [][NextLoopId]_vars

\* C32: any two YoloLoop objects have different loop_ids, two loops made from
\* the same configuration, or from prompts sharing their first 50 characters,
\* within one second included.
C32_DistinctLoopIds ==
    \A i, j \in 1..Len(loops) : i # j => loops[i].loop_id # loops[j].loop_id

(***************************************************************************)
(* The weaver beside a coordinator.  COORDINATOR_URL is set and another    *)
(* holder has been granted a lease on project A through the coordinator's  *)
(* claim (the MCP tool coordinator_claim leaves AGENCY.md alone, so the    *)
(* owner of A is still null).  LoomWeaver has no coordinator client: its   *)
(* steps are those of weave.                                               *)
(***************************************************************************)
LeaseHolder == "a1"

LeasedProject == "A"

InitLease ==
    /\ projects = <<WeaveProject("A", <<>>), WeaveProject("B", <<>>),
                    WeaveProject("C", <<"A">>)>>
    /\ WeaverIdle
    /\ DispatcherIdle
    /\ LoopIdle
    /\ REQUIRE_AUTH = TRUE
    /\ HIVE_API_KEY = NoKey
    /\ now = 0
    /\ store = add_claim(EmptyStore, [claim_id |-> 1, project_id |-> LeasedProject,
                                      agent_name |-> LeaseHolder, created_at |-> 0,
                                      expires_at |-> MAX_TTL_SECONDS])
    /\ next_uuid = 2
    /\ response = NoResponse
    /\ granted = [pid \in ProjectIds |-> <<>>]
    /\ grant = [pid \in ProjectIds |-> NoGrant]

SpecLease == InitLease /\ [][NextWeave]_vars

\* another holder has a lease on pid that has not expired at the weaver's clock
HeldByAnother(pid) ==
    /\ pid \in DOMAIN store.claims
    /\ ~is_expired(store.claims[pid], clock)
    /\ store.claims[pid].agent_name = LeaseHolder

\* C33: while another holder has a live lease on a task, the weaver's claim
\* of that task is a conflict: the task is skipped and no loop is started on
\* it, even though the owner field of the task is null.
C33_LeaseConflictSkipsTask ==
    \A l \in LoopIds :
        (CallerOf(l) = "weave" /\ workers[l].pc # "none" /\ HeldByAnother(workers[l].project))
        => (~workers[l].claimed /\ workers[l].status = "pending")

(***************************************************************************)
(* More properties of the coordinator                                      *)
(***************************************************************************)
\* the step serves an extend for pid that passes authentication
ServesExtend(pid) ==
    /\ response'.op = "extend"
    /\ response'.project_id = pid
    /\ verify_api_key(response'.cred) = 200

InClaimRange(ttl_seconds) == ttl_seconds >= MIN_TTL_SECONDS /\ ttl_seconds <= MAX_TTL_SECONDS

\* C34: an extend of a live lease with a TTL outside 60..MAX_TTL_SECONDS is
\* answered 422 and leaves expires_at as it was; a successful extend leaves
\* the lease live; an extend of a project without a live lease is answered
\* 404 (422 when its TTL is out of range as well) and creates no lease.
C34_ExtendValidatesTTL ==
    [][\A pid \in ProjectIds :
          ServesExtend(pid) =>
              /\ (LiveLease(pid) /\ ~InClaimRange(response'.ttl_seconds))
                    => /\ response'.status = 422
                       /\ pid \in DOMAIN store'.claims
                       /\ store'.claims[pid].expires_at = store.claims[pid].expires_at
              /\ response'.status = 200
                    => /\ pid \in DOMAIN store'.claims
                       /\ ~is_expired(store'.claims[pid], now)
              /\ ~LiveLease(pid)
                    => /\ response'.status \in {404, 422}
                       /\ InClaimRange(response'.ttl_seconds) => response'.status = 404
                       /\ pid \notin DOMAIN store'.claims]_vars

(***************************************************************************)
(* The sweep under fair scheduling.  lifespan creates cleanup_task when    *)
(* the server starts and cancels it only at shutdown; the task sleeps 60   *)
(* seconds and sweeps, forever, and cleanup_expired raises nothing.  While *)
(* the server is up a sweep that has something to remove is not postponed  *)
(* forever: weak fairness of cleanup_task.  Nothing is assumed of the      *)
(* requests or of the clock.                                               *)
(***************************************************************************)
SpecSweep == Spec /\ WF_vars(cleanup_task)

\* some lease in the store has expired
Abandoned == \E pid \in DOMAIN store.claims : is_expired(store.claims[pid], now)

\* claims_by_id holds a claim_id of a lease that is not in claims
StaleIndex ==
    \E cid \in DOMAIN store.claims_by_id :
        LET pid == store.claims_by_id[cid]
        IN ~(pid \in DOMAIN store.claims /\ store.claims[pid].claim_id = cid)

\* C35: a lease whose expires_at has passed is eventually out of claims and
\* out of claims_by_id, whether or not a request reads its project again,
\* when the sweep task is scheduled fairly: from a store holding an expired
\* lease a store is reached that holds no expired lease and no claim_id of a
\* removed lease (an expired lease stays expired, so it is gone by then).
C35_ExpiredEventuallySwept == Abandoned ~> (~Abandoned /\ ~StaleIndex)

\* the sweep has removed, at the last moment of the clock, a lease that was
\* neither released nor extended since its grant
C35_Witness ==
    /\ store = EmptyStore
    /\ response = NoResponse
    /\ \E pid \in ProjectIds :
          /\ grant[pid] # NoGrant
          /\ grant[pid].at + grant[pid].ttl < now

\* claims_by_id maps cid to pid iff claims[pid] is the lease of claim_id cid
IndexAgrees ==
    /\ \A cid \in DOMAIN store.claims_by_id :
          /\ store.claims_by_id[cid] \in DOMAIN store.claims
          /\ store.claims[store.claims_by_id[cid]].claim_id = cid
    /\ \A pid \in DOMAIN store.claims :
          /\ store.claims[pid].claim_id \in DOMAIN store.claims_by_id
          /\ store.claims_by_id[store.claims[pid].claim_id] = pid

\* C36: after any sequence of requests and sweeps claims_by_id and claims
\* agree, and a release by a claim_id that is not the one of the lease now
\* held on a project leaves that lease in the store.
C36_IndexAgreesWithClaims ==
    /\ []IndexAgrees
    /\ [][\A pid \in DOMAIN store.claims :
             (/\ response'.op = "release_by_claim_id"
              /\ response'.claim_id # store.claims[pid].claim_id)
             => (pid \in DOMAIN store'.claims /\ store'.claims[pid] = store.claims[pid])]_vars

\* a release by the claim_id of an earlier grant was served while a later
\* lease is held on the project
C36_Witness ==
    /\ response.op = "release_by_claim_id"
    /\ response.status = 200
    /\ response.claim_id < next_uuid
    /\ \E pid \in DOMAIN store.claims : store.claims[pid].claim_id > response.claim_id

(***************************************************************************)
(* More properties of the Cortex                                           *)
(***************************************************************************)
\* C37: ready_work and is_blocked agree on every set of records: a project
\* returned by ready_work is not blocked according to is_blocked, and an
\* active, unowned project that is_blocked reports as not blocked is
\* returned by ready_work.
C37_ReadyAgreesWithIsBlocked ==
    \A i \in 1..Len(projects) : \A order \in Orders(ProjectIdsOf(projects)) :
        LET blocked == is_blocked(projects[i].project_id, projects, order).is_blocked
            returned == projects[i] \in Range(ready_work(projects))
        IN /\ returned => ~blocked
           /\ (projects[i].status = "active" /\ projects[i].owner = NoOwner /\ ~blocked)
                => returned

\* the sequence c closes on itself along edges of the graph
GenuineCycle(edges, c) ==
    /\ Len(c) >= 2
    /\ c[1] = c[Len(c)]
    /\ \A j \in 1..(Len(c) - 1) : c[j + 1] \in Range(edges[c[j]])

\* C38: every cycle reported by detect_cycles is a cycle of the graph: its
\* first and last elements are equal and each element is followed by one of
\* its successors in edges, in whatever order the nodes are iterated.
C38_ReportedCyclesAreGenuine ==
    \A order \in Orders(ProjectIdsOf(projects)) :
        \A k \in 1..Len(detect_cycles(projects, order)) :
            GenuineCycle(build_dependency_graph(projects).edges, detect_cycles(projects, order)[k])

(***************************************************************************)
(* claim_project in owner-field mode, called side by side.  Neither        *)
(* LoomWeaver.claim_project nor AgentDispatcher.claim_project takes a lock *)
(* or opens the file exclusively: a call reads AGENCY.md                   *)
(* (safe_load_agency_md), works on its copy, and writes the whole file     *)
(* back (open(path, "w")), and the calls of other threads and processes    *)
(* run between the two.                                                    *)
(***************************************************************************)
RacePaths == {"A", "B"}

\* what a call writes into owner
OwnerOf(c) == IF c = "D1" THEN DEFAULT_AGENT_NAME ELSE "yolo-loop:" \o c

InitClaimRace ==
    /\ projects = <<WeaveProject("A", <<>>), WeaveProject("B", <<>>)>>
    /\ WeaverIdle
    /\ DispatcherIdle
    /\ LoopIdle
    /\ REQUIRE_AUTH = TRUE
    /\ HIVE_API_KEY = NoKey
    /\ now = 0
    /\ store = EmptyStore
    /\ next_uuid = 1
    /\ response = NoResponse
    /\ granted = [pid \in ProjectIds |-> <<>>]
    /\ grant = [pid \in ProjectIds |-> NoGrant]

RaceOnly ==
    UNCHANGED <<REQUIRE_AUTH, HIVE_API_KEY, now, store, next_uuid, response, granted, grant,
                dispatcher_vars, loop_vars, weaver, workers, loops>>

\* LoomWeaver.claim_project up to its test of owner: the file is parsed, and
\* the call returns False when the copy has an owner
weaver_claim_read(c, path) ==
    /\ c # "D1"
    /\ claim_calls[c].pc = "none"
    /\ LET parsed == projects[FileAt(projects, path)]
       IN claim_calls' = [claim_calls EXCEPT ![c] =
            IF parsed.owner # NoOwner
            THEN [pc |-> "returned", path |-> path, seen |-> <<parsed>>, result |-> FALSE]
            ELSE [pc |-> "read", path |-> path, seen |-> <<parsed>>, result |-> FALSE]]
    /\ UNCHANGED projects
    /\ RaceOnly

\* AgentDispatcher.claim_project up to its write: the file is parsed, owner
\* is not looked at
dispatcher_claim_read(c, path) ==
    /\ c = "D1"
    /\ claim_calls[c].pc = "none"
    /\ claim_calls' = [claim_calls EXCEPT ![c] =
            [pc |-> "read", path |-> path, seen |-> <<projects[FileAt(projects, path)]>>,
             result |-> FALSE]]
    /\ UNCHANGED projects
    /\ RaceOnly

\* the rest of either claim_project: the copy, with owner set, replaces the
\* file, and the call returns True
claim_write(c) ==
    /\ claim_calls[c].pc = "read"
    /\ projects' = [projects EXCEPT ![FileAt(projects, claim_calls[c].path)] =
                        [claim_calls[c].seen[1] EXCEPT !.owner = OwnerOf(c)]]
    /\ claim_calls' = [claim_calls EXCEPT ![c].pc = "returned", ![c].result = TRUE]
    /\ RaceOnly

NextClaimRace ==
    \/ \E c \in Callers, path \in RacePaths : weaver_claim_read(c, path)
    \/ \E c \in Callers, path \in RacePaths : dispatcher_claim_read(c, path)
    \/ \E c \in Callers : claim_write(c)

SpecClaimRace == InitClaimRace /\ [][NextClaimRace]_vars

\* the calls for path that returned True, and those between read and write
Winners(path) ==
    {c \in Callers : claim_calls[c].pc = "returned" /\ claim_calls[c].path = path
                     /\ claim_calls[c].result}

InFlightCalls(path) == {c \in Callers : claim_calls[c].pc = "read" /\ claim_calls[c].path = path}

\* C39: of the calls of claim_project for one unowned project, in whatever
\* order their reads and writes fall, at most one returns True, and once
\* they have all returned the owner in the file is the one that call wrote.
C39_AtMostOneClaimWins ==
    \A path \in RacePaths :
        /\ Cardinality(Winners(path)) <= 1
        /\ InFlightCalls(path) = {}
            => \A c \in Winners(path) : projects[FileAt(projects, path)].owner = OwnerOf(c)

(***************************************************************************)
(* One call of run() under fair scheduling of its own thread: an executor  *)
(* call, the sleep(60) of the rate limit and the cooldown all return after *)
(* finite time, so a pass of the for loop that can be made is made.        *)
(* Nothing is assumed of stop(), of Ctrl+C or of the clock, which is       *)
(* followed until run() has returned.                                      *)
(***************************************************************************)
Pass ==
    \/ \E success \in BOOLEAN, output \in Outputs : run_iteration(success, output)
    \/ run_exhausted

NextRun ==
    \/ stop
    \/ frame.runs = 0 /\ run_start
    \/ Pass
    \/ keyboard_interrupt
    \/ (frame.pc = "loop" \/ frame.runs = 0) /\ LoopTick

SpecRun == InitLoop /\ [][NextRun]_vars /\ WF_vars(Pass)

\* C40: run() returns, whatever the executor, the rate limit and stop() do:
\* it makes at most max_iterations passes of its loop, and when it has
\* returned the status is terminal and end_time is set.
C40_RunTerminates ==
    /\ [](frame.pc = "loop" => frame.iteration - 1 <= config.max_iterations)
    /\ [](RunEnded => (state.status \in Terminal /\ state.end_time # NoTime
                       /\ state.end_time >= state.start_time))
    /\ (frame.pc = "loop") ~> (frame.pc = "idle")

\* a run that waited for the rate limit in its last pass has returned
C40_Witness ==
    /\ RunEnded
    /\ frame.skipped >= 1
    /\ frame.iteration = config.max_iterations + 1
    /\ state.api_calls_this_hour >= config.rate_limit_per_hour
    /\ state.status = "failed"
    /\ state.end_time # NoTime
====
